---- MODULE Spec2Model ----
(***************************************************************************)
(* microtools: six link-based sharing tools (notes, secrets, polls,        *)
(* expenses, file shares, potluck lists) over one SQLite table `objects`.  *)
(*                                                                         *)
(* server/objectStore.ts is modelled as operators over the table (a set    *)
(* of rows) and server/index.ts as one action per route handler.  Node     *)
(* runs a handler to completion up to its first await and better-sqlite3   *)
(* is synchronous, so a handler without an await between its store calls   *)
(* is one atomic step; requests of several clients are in flight at the    *)
(* same time and are handled in any order.                                 *)
(***************************************************************************)
EXTENDS Integers, Sequences, FiniteSets, TLC

VARIABLES
  objects,     \* the rows of table `objects` (db.ts)
  now,         \* Date.now()
  last,        \* the last objectStore call made by a direct caller, and its result
  terminated,  \* history: ids whose row was deleted and that have no row since
  req,         \* per client: the HTTP request in flight and its response
  dirs,        \* the directories data/files/<id> that exist
  minted,      \* the number of capability tokens drawn so far
  reveals      \* history: per id, how often a response carried its ciphertext

vars == <<objects, now, last, terminated, req, dirs, minted, reveals>>

-----------------------------------------------------------------------------
(* Bounds of the model *)

MaxTime == 3

Ids == {"a", "b"}

Times == 1..MaxTime

\* number | null, as an optional value: <<>> is null, <<t>> is the number t
NoExpiry == << >>

ExpiryValues == {NoExpiry} \cup {<<t>> : t \in 0..MaxTime}

-----------------------------------------------------------------------------
(* JSON.stringify / JSON.parse: a JavaScript number is [num |-> n] or NaN;  *)
(* stringify writes NaN as null, and parse reads null back as null.        *)

Num(n) == [num |-> n]

NaN == [nan |-> TRUE]

JsonNull == [null |-> TRUE]

IsNum(v) == "num" \in DOMAIN v

JsonNumber(v) == IF IsNum(v) THEN v ELSE JsonNull

JsonAmounts(seq) == [i \in DOMAIN seq |-> [seq[i] EXCEPT !.amount = JsonNumber(@)]]

JsonValue(d) ==
  IF "entries" \in DOMAIN d
    THEN [d EXCEPT !.entries = JsonAmounts(@)]
  ELSE IF "needed" \in DOMAIN d
    THEN [d EXCEPT !.needed = [i \in DOMAIN @ |->
                                 [@[i] EXCEPT !.claims = JsonAmounts(@)]],
                   !.custom = JsonAmounts(@)]
  ELSE d

Stringify(d) == [json |-> JsonValue(d)]

Parse(text) == text.json

-----------------------------------------------------------------------------
(* server/objectStore.ts over a table tbl (a set of rows) *)

RowsWithId(tbl, id) == {r \in tbl : r.id = id}

HasRow(tbl, id) == RowsWithId(tbl, id) # {}

\* stmt.get(id): the first matching row, or undefined
SelectById(tbl, id) ==
  IF HasRow(tbl, id) THEN <<CHOOSE r \in RowsWithId(tbl, id) : TRUE>> ELSE << >>

\* the PRIMARY KEY constraint of the INSERT
InsertRejectedNever(tbl, id) == FALSE

InsertRejected(tbl, id) == HasRow(tbl, id)

NewRowTtl(id, type, data, createdAt, expiresAt) ==
  [id |-> id, type |-> type, data |-> Stringify(data), created_at |-> createdAt,
   expires_at |-> IF expiresAt = NoExpiry THEN NoExpiry ELSE <<createdAt + expiresAt[1]>>]

NewRow(id, type, data, createdAt, expiresAt) ==
  [id |-> id, type |-> type, data |-> Stringify(data),
   created_at |-> createdAt, expires_at |-> expiresAt]

\* createWithId: the table after the call (unchanged when the INSERT throws)
InsertRow(tbl, id, type, data, createdAt, expiresAt) ==
  IF InsertRejected(tbl, id) THEN tbl
  ELSE tbl \cup {NewRow(id, type, data, createdAt, expiresAt)}

\* createWithId: the object returned
CreatedObject(id, type, data, createdAt, expiresAt) ==
  [id |-> id, type |-> type, data |-> data,
   created_at |-> createdAt, expires_at |-> expiresAt]

\* DELETE FROM objects WHERE id = ?
DeleteRowsKeep(tbl, id) == tbl

DeleteRowsUnexpiring(tbl, id) == tbl \ {r \in RowsWithId(tbl, id) : r.expires_at = NoExpiry}

DeleteRows(tbl, id) == tbl \ RowsWithId(tbl, id)

\* remove: result.changes > 0
RemoveResult(tbl, id) == HasRow(tbl, id)

\* get: row.expires_at && row.expires_at < Date.now()
LazilyExpiredNullAsZero(row, t) == row.expires_at = NoExpiry \/ row.expires_at[1] < t

LazilyExpired(row, t) ==
  /\ row.expires_at # NoExpiry
  /\ row.expires_at[1] # 0
  /\ row.expires_at[1] < t

ObjectOf(row) ==
  [id |-> row.id, type |-> row.type, data |-> Parse(row.data),
   created_at |-> row.created_at, expires_at |-> row.expires_at]

\* get: the object returned (<< >> is null)
GetResult(tbl, id, t) ==
  LET sel == SelectById(tbl, id) IN
    IF sel = << >> THEN << >>
    ELSE IF LazilyExpired(sel[1], t) THEN << >>
    ELSE <<ObjectOf(sel[1])>>

\* get: the table after the call
GetTable(tbl, id, t) ==
  LET sel == SelectById(tbl, id) IN
    IF sel # << >> /\ LazilyExpired(sel[1], t) THEN DeleteRows(tbl, id) ELSE tbl

\* UPDATE objects SET data = ? WHERE id = ?
UpdateRowsUpsert(tbl, id, data) ==
  IF HasRow(tbl, id)
    THEN {IF r.id = id THEN [r EXCEPT !.data = Stringify(data)] ELSE r : r \in tbl}
    ELSE tbl \cup {NewRow(id, "note", data, 1, NoExpiry)}

UpdateRowsRenew(tbl, id, data) ==
  {IF r.id = id THEN [r EXCEPT !.data = Stringify(data), !.expires_at = NoExpiry]
   ELSE r : r \in tbl}

UpdateRows(tbl, id, data) ==
  {IF r.id = id THEN [r EXCEPT !.data = Stringify(data)] ELSE r : r \in tbl}

\* update: the table after the call (the UPDATE, then get(id) when a row changed)
UpdateTable(tbl, id, data, t) ==
  IF HasRow(tbl, id) THEN GetTable(UpdateRows(tbl, id, data), id, t)
  ELSE UpdateRows(tbl, id, data)

\* update: the object returned
UpdateResult(tbl, id, data, t) ==
  IF HasRow(tbl, id) THEN GetResult(UpdateRows(tbl, id, data), id, t) ELSE << >>

\* purgeExpired: WHERE expires_at IS NOT NULL AND expires_at < ?
PurgeSelectedTruthy(tbl, t) ==
  {r \in tbl : r.expires_at # NoExpiry /\ r.expires_at[1] # 0 /\ r.expires_at[1] < t}

PurgeSelected(tbl, t) == {r \in tbl : r.expires_at # NoExpiry /\ r.expires_at[1] < t}

PurgeResult(tbl, t) == {[id |-> r.id, type |-> r.type] : r \in PurgeSelected(tbl, t)}

PurgeTableKeep(tbl, t) == tbl

PurgeTable(tbl, t) == tbl \ PurgeSelected(tbl, t)

IdsOf(tbl) == {r.id : r \in tbl}

-----------------------------------------------------------------------------
(* Direct callers of the object store: any sequence of create,             *)
(* createWithId, get, update, remove, purgeExpired and clock advances.     *)

StoreTypes == {"note", "fileshare"}

StoreData == {[text |-> "t1"], [text |-> "t2"]}

\* at: Date.now() during the call; again: the call before was the same
\* function on the same id
NoCall ==
  [op |-> "none", id |-> "", ret |-> << >>, flag |-> FALSE, threw |-> FALSE, rows |-> {},
   at |-> 0, again |-> FALSE]

Call(op, id, ret, flag, threw, rows) ==
  [op |-> op, id |-> id, ret |-> ret, flag |-> flag, threw |-> threw, rows |-> rows,
   at |-> now, again |-> (last.op = op /\ last.id = id)]

\* history: an id is terminated from the step that deletes its row until a row
\* with that id is inserted again
Terminate == terminated' = (terminated \cup (IdsOf(objects) \ IdsOf(objects'))) \ IdsOf(objects')

NoRequests == [c \in {} |-> 0]

NoReveals == [id \in Ids |-> 0]

\* crypto.randomBytes(8): 64 random bits, a draw that repeats no id the table
\* holds or has held
Fresh(id) == id \notin IdsOf(objects) \cup terminated

InitStore ==
  /\ objects = {}
  /\ now = 1
  /\ last = NoCall
  /\ terminated = {}
  /\ req = NoRequests
  /\ dirs = {}
  /\ minted = 0
  /\ reveals = NoReveals

\* createWithId(id, type, data, expiresAt), also the body of create
CreateWithIdCall(op, id, type, data, expiresAt) ==
  /\ objects' = InsertRow(objects, id, type, data, now, expiresAt)
  /\ last' = IF InsertRejected(objects, id)
               THEN Call(op, id, << >>, FALSE, TRUE, {})
               ELSE Call(op, id, <<CreatedObject(id, type, data, now, expiresAt)>>,
                         FALSE, FALSE, {})
  /\ Terminate
  /\ UNCHANGED <<now, req, dirs, minted, reveals>>

\* create: generateId() draws the id
StoreCreateOf(id, type, data, expiresAt) ==
  /\ Fresh(id)
  /\ CreateWithIdCall("create", id, type, data, expiresAt)

StoreCreate ==
  \E id \in Ids, type \in StoreTypes, data \in StoreData, expiresAt \in ExpiryValues :
    StoreCreateOf(id, type, data, expiresAt)

StoreCreateWithId ==
  \E id \in Ids, type \in StoreTypes, data \in StoreData, expiresAt \in ExpiryValues :
    CreateWithIdCall("createWithId", id, type, data, expiresAt)

StoreGet ==
  \E id \in Ids :
    /\ objects' = GetTable(objects, id, now)
    /\ last' = Call("get", id, GetResult(objects, id, now), FALSE, FALSE, {})
    /\ Terminate
    /\ UNCHANGED <<now, req, dirs, minted, reveals>>

StoreUpdateOf(id, data) ==
  /\ objects' = UpdateTable(objects, id, data, now)
  /\ last' = Call("update", id, UpdateResult(objects, id, data, now), FALSE, FALSE, {})
  /\ Terminate
  /\ UNCHANGED <<now, req, dirs, minted, reveals>>

StoreUpdate == \E id \in Ids, data \in StoreData : StoreUpdateOf(id, data)

StoreRemove ==
  \E id \in Ids :
    /\ objects' = DeleteRows(objects, id)
    /\ last' = Call("remove", id, << >>, RemoveResult(objects, id), FALSE, {})
    /\ Terminate
    /\ UNCHANGED <<now, req, dirs, minted, reveals>>

StorePurgeExpired ==
  /\ objects' = PurgeTable(objects, now)
  /\ last' = Call("purgeExpired", "", << >>, FALSE, FALSE, PurgeResult(objects, now))
  /\ Terminate
  /\ UNCHANGED <<now, req, dirs, minted, reveals>>

\* Date.now() advances between calls
Tick ==
  /\ now < MaxTime
  /\ now' = now + 1
  /\ UNCHANGED <<objects, last, terminated, req, dirs, minted, reveals>>

NextStore ==
  \/ StoreCreate
  \/ StoreCreateWithId
  \/ StoreGet
  \/ StoreUpdate
  \/ StoreRemove
  \/ StorePurgeExpired
  \/ Tick

SpecStore == InitStore /\ [][NextStore]_vars

-----------------------------------------------------------------------------
(* Properties of the object store, under SpecStore.  A step of call op is   *)
(* one where last' names op and the clock stands still (only Tick moves it).*)

\* C1: get(id) never returns an object whose expires_at is set and earlier than
\* the current time: for such a row get returns absent and the row is gone when
\* get returns.
C1_GetNeverReturnsExpired ==
  [][\A id \in Ids :
       (last'.op = "get" /\ last'.id = id /\ now' = now) =>
         \A r \in RowsWithId(objects, id) :
           (r.expires_at # NoExpiry /\ r.expires_at[1] < now) =>
             (last'.ret = << >> /\ ~HasRow(objects', id))]_vars

\* C8: createWithId with an id that already has a row throws and leaves the
\* table as it was, and no two rows ever share an id.
C8_ConflictLeavesRow ==
  [][/\ (last'.op = "createWithId" /\ now' = now /\ HasRow(objects, last'.id)) =>
          (last'.threw /\ objects' = objects)
     /\ \A r \in objects' : \A s \in objects' : r.id = s.id => r = s]_vars

C8_Witness ==
  /\ last.op = "createWithId"
  /\ last.threw
  /\ HasRow(objects, last.id)
  /\ Cardinality(objects) = 2

\* C9 as stated: once an object has been terminated its id is never given to a
\* new object, and every later get of that id returns not found.
C9_IdNeverReused ==
  [][\A id \in terminated :
       /\ ~HasRow(objects', id)
       /\ (last'.op = "get" /\ last'.id = id /\ now' = now) => last'.ret = << >>]_vars

\* C9 as amended: a terminated id has no row, and get of it returns not found,
\* until a create or createWithId is given that same id, which the store accepts;
\* no other call brings a row of that id back.
C9_TerminatedUntilRecreated ==
  [][\A id \in terminated :
       /\ HasRow(objects', id) =>
            (last'.op \in {"create", "createWithId"} /\ last'.id = id
               /\ ~last'.threw /\ now' = now)
       /\ (last'.op = "get" /\ last'.id = id /\ now' = now) => last'.ret = << >>]_vars

C9_Witness ==
  /\ last.op = "get"
  /\ last.id \in terminated
  /\ last.ret = << >>
  /\ objects # {}

\* C10: update never changes the id, type, created_at or expires_at of a row.
C10_UpdateKeepsFields ==
  [][(last'.op = "update" /\ now' = now) =>
       /\ IdsOf(objects') \subseteq IdsOf(objects)
       /\ \A r \in objects : \A s \in objects' :
            r.id = s.id =>
              /\ s.type = r.type
              /\ s.created_at = r.created_at
              /\ s.expires_at = r.expires_at]_vars

C10_Witness ==
  /\ last.op = "update"
  /\ last.ret # << >>
  /\ last.ret[1].expires_at # NoExpiry
  /\ last.ret[1].created_at < now
  /\ last.ret[1].data = [text |-> "t2"]

\* expires_at is set and strictly earlier than t
InPast(r, t) == r.expires_at # NoExpiry /\ r.expires_at[1] < t

\* C11: update(id, newData) on a row that is not expired stores newData in that
\* row alone and returns the object carrying newData; on an expired row it does
\* not replace the data; on an id with no row it returns absent and changes
\* nothing.
C11_UpdateOnlyUnexpired ==
  [][\A id \in Ids, data \in StoreData :
       StoreUpdateOf(id, data) =>
         IF ~HasRow(objects, id)
           THEN last'.ret = << >> /\ objects' = objects
         ELSE LET r == SelectById(objects, id)[1] IN
           IF InPast(r, now)
             THEN /\ last'.ret = << >>
                  /\ \A s \in RowsWithId(objects', id) : s = r
           ELSE /\ last'.ret = <<[id |-> id, type |-> r.type, data |-> data,
                                 created_at |-> r.created_at, expires_at |-> r.expires_at]>>
                /\ objects' = (objects \ {r}) \cup {[r EXCEPT !.data = Stringify(data)]}]_vars

\* the same with "expired" read as get reads it (expires_at 0 never expires)
UpdateOnlyUnexpiredAsGet ==
  [][\A id \in Ids, data \in StoreData :
       StoreUpdateOf(id, data) =>
         IF ~HasRow(objects, id)
           THEN last'.ret = << >> /\ objects' = objects
         ELSE LET r == SelectById(objects, id)[1] IN
           IF InPast(r, now) /\ r.expires_at # <<0>>
             THEN last'.ret = << >> /\ ~HasRow(objects', id)
           ELSE /\ last'.ret = <<[id |-> id, type |-> r.type, data |-> data,
                                 created_at |-> r.created_at, expires_at |-> r.expires_at]>>
                /\ objects' = (objects \ {r}) \cup {[r EXCEPT !.data = Stringify(data)]}]_vars

\* C12: purgeExpired deletes exactly the rows whose expires_at is set and
\* strictly earlier than the time of the call, returns exactly their (id, type)
\* pairs and leaves every other row as it was.
C12_PurgeExactlyExpired ==
  [][(last'.op = "purgeExpired" /\ now' = now) =>
       /\ objects' = {r \in objects : ~InPast(r, now)}
       /\ last'.rows = {[id |-> r.id, type |-> r.type] : r \in {x \in objects : InPast(x, now)}}]_vars

C12_Witness ==
  /\ last.op = "purgeExpired"
  /\ last.at = now
  /\ last.rows # {}
  /\ \E r \in objects : r.expires_at = <<now>>

\* C13 as stated: a purgeExpired call that directly follows a purgeExpired call
\* returns an empty list and changes nothing.
C13_SecondPurgeEmpty ==
  [][(last'.op = "purgeExpired" /\ last'.again /\ now' = now) =>
       (last'.rows = {} /\ objects' = objects)]_vars

\* C13 as amended: a purgeExpired call that directly follows a purgeExpired call
\* returns and deletes exactly the rows that expired between the two calls, so
\* it returns an empty list and changes nothing when the clock reads the same.
C13_SecondPurgeSinceFirst ==
  [][(last'.op = "purgeExpired" /\ last'.again /\ now' = now) =>
       /\ last'.rows = {[id |-> r.id, type |-> r.type] :
                          r \in {x \in objects : InPast(x, now) /\ ~InPast(x, last.at)}}
       /\ objects' = {r \in objects : ~InPast(r, now)}
       /\ last.at = now => (last'.rows = {} /\ objects' = objects)]_vars

C13_Witness ==
  /\ last.op = "purgeExpired"
  /\ last.again
  /\ last.at = now
  /\ last.rows = {}
  /\ terminated # {}
  /\ \E r \in objects : r.expires_at = <<now>>

\* C14: a row without expires_at is returned by every get, at any clock value,
\* and leaves the table only by remove of its id.
C14_NoExpiryLivesOn ==
  [][\A r \in objects :
       r.expires_at = NoExpiry =>
         /\ ~HasRow(objects', r.id) =>
              (last'.op = "remove" /\ last'.id = r.id /\ last'.flag /\ now' = now)
         /\ (last'.op = "get" /\ last'.id = r.id /\ now' = now) =>
              last'.ret = <<[id |-> r.id, type |-> r.type, data |-> Parse(r.data),
                             created_at |-> r.created_at, expires_at |-> NoExpiry]>>]_vars

C14_Witness ==
  /\ last.op = "get"
  /\ last.at = MaxTime
  /\ last.ret # << >>
  /\ last.ret[1].expires_at = NoExpiry
  /\ last.ret[1].created_at = 1
  /\ HasRow(objects, last.id)

\* C15: remove(id) deletes the row of id, expired or not, and nothing else, and
\* returns true exactly when there was such a row; a remove(id) that directly
\* follows a remove(id) returns false and changes nothing.
C15_RemoveIdempotent ==
  [][\A id \in Ids :
       (last'.op = "remove" /\ last'.id = id /\ now' = now) =>
         /\ last'.flag = (\E r \in objects : r.id = id)
         /\ objects' = {r \in objects : r.id # id}
         /\ last'.again => (~last'.flag /\ objects' = objects)]_vars

C15_Witness ==
  /\ last.op = "remove"
  /\ last.again
  /\ ~last.flag
  /\ last.id \in terminated
  /\ objects # {}

\* C20 as stated: create with a third argument ttl stores expires_at = creation
\* time + ttl, without it expires_at = null, and returns the stored values.
C20_CreateAddsTtl ==
  [][\A id \in Ids, type \in StoreTypes, data \in StoreData, ttl \in ExpiryValues :
       StoreCreateOf(id, type, data, ttl) =>
         \E r \in objects' :
           /\ r.id = id
           /\ r.expires_at = IF ttl = NoExpiry THEN NoExpiry ELSE <<now + ttl[1]>>
           /\ last'.ret = <<[id |-> id, type |-> r.type, data |-> Parse(r.data),
                            created_at |-> r.created_at, expires_at |-> r.expires_at]>>]_vars

\* C20 as amended: the third argument of create is the absolute time expiresAt,
\* stored as given (null without it); the row is stamped with the creation time
\* and the object returned carries the stored values.
C20_CreateStoresExpiresAt ==
  [][\A id \in Ids, type \in StoreTypes, data \in StoreData, expiresAt \in ExpiryValues :
       StoreCreateOf(id, type, data, expiresAt) =>
         LET r == [id |-> id, type |-> type, data |-> Stringify(data),
                   created_at |-> now, expires_at |-> expiresAt] IN
           /\ ~HasRow(objects, id)
           /\ objects' = objects \cup {r}
           /\ last'.ret = <<[id |-> id, type |-> type, data |-> data,
                            created_at |-> now, expires_at |-> expiresAt]>>
           /\ last'.ret[1].data = Parse(r.data)]_vars

C20_Witness ==
  /\ last.op = "create"
  /\ last.at = now
  /\ last.ret # << >>
  /\ last.ret[1].expires_at # NoExpiry
  /\ last.ret[1].expires_at[1] < last.ret[1].created_at
  /\ \E r \in objects : r.id = last.id /\ r.expires_at = last.ret[1].expires_at
  /\ \E r \in objects : r.expires_at = NoExpiry


-----------------------------------------------------------------------------
(* server/index.ts: requests in flight.  A client sends a request, which    *)
(* is pending until fastify runs its handler; the handler's response is     *)
(* kept until the client sends again.  A pending request remembers what     *)
(* was true when it was sent (history, read by no handler): `at`, the       *)
(* state of the id it names, and `with`, the clients whose request for the  *)
(* same id was pending then.                                                *)

Clients == {"c1", "c2"}

NoResponse == [status |-> 0]

Idle == [st |-> "idle", route |-> "", id |-> "", at |-> "", with |-> {}, resp |-> NoResponse]

IdState(id) ==
  IF HasRow(objects, id) THEN "stored"
  ELSE IF id \in terminated THEN "terminated"
  ELSE "unborn"

PendingOn(route, id) ==
  {d \in Clients : req[d].st = "pending" /\ req[d].route = route /\ req[d].id = id}

Pending(c, route, id) ==
  [st |-> "pending", route |-> route, id |-> id, at |-> IdState(id),
   with |-> PendingOn(route, id) \ {c}, resp |-> NoResponse]

Respond(c, resp) == req' = [req EXCEPT ![c].st = "done", ![c].resp = resp]

\* c and d were in flight at the same time
Concurrent(c, d) == d \in req[c].with \/ c \in req[d].with

-----------------------------------------------------------------------------
(* Secrets: POST /secrets, GET /secrets/:id *)

Ciphertexts == {"x", "y"}

SecretGone == [status |-> 200, view |-> "secrets/gone"]

SecretShow(ciphertext) == [status |-> 200, view |-> "secrets/show", ciphertext |-> ciphertext]

InitSecret ==
  /\ objects = {}
  /\ now = 1
  /\ last = NoCall
  /\ terminated = {}
  /\ req = [c \in Clients |-> Idle]
  /\ dirs = {}
  /\ minted = 0
  /\ reveals = NoReveals

\* POST /secrets with a non-blank ciphertext: objectStore.create('secret', ...)
PostSecrets ==
  \E id \in Ids, ciphertext \in Ciphertexts :
    /\ Fresh(id)
    /\ objects' = InsertRow(objects, id, "secret", [ciphertext |-> ciphertext], now, NoExpiry)
    /\ Terminate
    /\ UNCHANGED <<now, last, req, dirs, minted, reveals>>

SendGetSecret(c) ==
  \E id \in Ids :
    /\ req[c].st # "pending"
    /\ req' = [req EXCEPT ![c] = Pending(c, "GET /secrets/:id", id)]
    /\ UNCHANGED <<objects, now, last, terminated, dirs, minted, reveals>>

\* the handler with an await between objectStore.get and objectStore.remove
GetSecretAwait(c) ==
  \/ /\ req[c].st = "pending"
     /\ req[c].route = "GET /secrets/:id"
     /\ LET secret == GetResult(objects, req[c].id, now) IN
          /\ objects' = GetTable(objects, req[c].id, now)
          /\ IF secret = << >>
               THEN /\ Respond(c, SecretGone)
                    /\ reveals' = reveals
               ELSE /\ req' = [req EXCEPT ![c].st = "read",
                                          ![c].resp = SecretShow(secret[1].data.ciphertext)]
                    /\ reveals' = [reveals EXCEPT ![req[c].id] = @ + 1]
     /\ Terminate
     /\ UNCHANGED <<now, last, dirs, minted>>
  \/ /\ req[c].st = "read"
     /\ objects' = DeleteRows(objects, req[c].id)
     /\ req' = [req EXCEPT ![c].st = "done"]
     /\ Terminate
     /\ UNCHANGED <<now, last, dirs, minted, reveals>>

\* GET /secrets/:id: get, then remove, then the view; no await in between
GetSecret(c) ==
  /\ req[c].st = "pending"
  /\ req[c].route = "GET /secrets/:id"
  /\ LET secret == GetResult(objects, req[c].id, now) IN
       IF secret = << >>
         THEN /\ objects' = GetTable(objects, req[c].id, now)
              /\ Respond(c, SecretGone)
              /\ reveals' = reveals
         ELSE /\ objects' = DeleteRows(GetTable(objects, req[c].id, now), req[c].id)
              /\ Respond(c, SecretShow(secret[1].data.ciphertext))
              /\ reveals' = [reveals EXCEPT ![req[c].id] = @ + 1]
  /\ Terminate
  /\ UNCHANGED <<now, last, dirs, minted>>

NextSecret ==
  \/ PostSecrets
  \/ \E c \in Clients : SendGetSecret(c)
  \/ \E c \in Clients : GetSecret(c)

SpecSecret == InitSecret /\ [][NextSecret]_vars

Revealed(c) == req[c].st = "done" /\ "ciphertext" \in DOMAIN req[c].resp

\* C2: of two reveal requests for a stored secret that are in flight at the same
\* time, exactly one returns the ciphertext and the other returns gone; and a
\* later read, sent when the secret has been revealed, returns gone.
C2_ExactlyOneConcurrentReveal ==
  /\ \A c \in Clients : \A d \in Clients \ {c} :
       (/\ req[c].st = "done" /\ req[d].st = "done"
        /\ req[c].id = req[d].id
        /\ Concurrent(c, d)
        /\ req[c].at = "stored" /\ req[d].at = "stored")
       => /\ Revealed(c) # Revealed(d)
          /\ \A e \in {c, d} : ~Revealed(e) => req[e].resp = SecretGone
  /\ \A c \in Clients :
       (req[c].st = "done" /\ req[c].at = "terminated") => req[c].resp = SecretGone

C2_Witness ==
  /\ req["c1"].st = "done" /\ req["c2"].st = "done"
  /\ req["c1"].id = req["c2"].id
  /\ Concurrent("c1", "c2")
  /\ req["c1"].at = "stored" /\ req["c2"].at = "stored"
  /\ req["c1"].resp = SecretGone
  /\ Revealed("c2")

\* C3: a read of a stored secret returns its ciphertext and deletes its row in
\* the same step, and the ciphertext of a secret is returned at most once.
C3_RevealedAtMostOnce ==
  [][/\ \A id \in Ids :
          /\ reveals'[id] <= 1
          /\ reveals'[id] = 1 => ~HasRow(objects', id)
     /\ \A c \in Clients :
          (req[c].st = "pending" /\ Revealed(c)' /\ ~UNCHANGED req) =>
            /\ HasRow(objects, req[c].id)
            /\ SelectById(objects, req[c].id)[1].data = Stringify([ciphertext |-> req'[c].resp.ciphertext])
            /\ ~HasRow(objects', req[c].id)]_vars

C3_Witness ==
  \E c \in Clients :
    /\ Revealed(c)
    /\ reveals[req[c].id] = 1
    /\ req[c].id \in terminated
    /\ \E d \in Clients \ {c} :
         req[d].st = "done" /\ req[d].id = req[c].id /\ req[d].at = "terminated"

-----------------------------------------------------------------------------
(* Routes whose handler holds no await: the request is sent and handled in  *)
(* one step, and the response is kept as the caller's last request.         *)

Callers == {"c1"}

Handled(route, resp) == [st |-> "done", route |-> route, resp |-> resp]

Reply(c, route, resp) == req' = [req EXCEPT ![c] = Handled(route, resp)]

\* array.splice(idx, 1), idx counted from 0
Splice(seq, idx) == [i \in 1..(Len(seq) - 1) |-> IF i <= idx THEN seq[i] ELSE seq[i + 1]]

\* parseInt(s, 10) on the strings the model submits
ParseInt(str) ==
  CASE str = "-1" -> Num(0 - 1)
    [] str = "0" -> Num(0)
    [] str = "1" -> Num(1)
    [] str = "2" -> Num(2)
    [] str = "3" -> Num(3)
    [] OTHER -> NaN

\* variant: a <= b
JsLessOrEqual(a, b) == IsNum(a) /\ IsNum(b) /\ a.num <= b.num

\* a < b on JavaScript numbers: false when either is NaN
JsLess(a, b) == IsNum(a) /\ IsNum(b) /\ a.num < b.num

\* sum + c.amount where the amount was read from JSON: null counts as 0
ToNumber(v) == IF IsNum(v) THEN v.num ELSE 0

\* variant: the claims already stored are not counted
SumAmountsNone(seq) == 0

RECURSIVE SumAmounts(_)
SumAmounts(seq) ==
  IF seq = << >> THEN 0 ELSE ToNumber(seq[1].amount) + SumAmounts(Tail(seq))

\* body.field || dflt
OrDefault(str, dflt) == IF str = "" THEN dflt ELSE str

-----------------------------------------------------------------------------
(* Bring list: POST /bring, POST /b/:id/claim/:idx,                         *)
(* DELETE /b/:id/claim/:idx/:claimIdx, POST /b/:id/custom,                  *)
(* DELETE /b/:id/custom/:customIdx                                          *)

MaxTokens == 2

\* :idx, :claimIdx and :customIdx of the requests
Indexes == 0..1

\* the ids generateId() draws for bring lists
ListIds == {"a"}

AmountStrings == {"", "x", "-1", "0", "1", "2"}

Names == {"", "ann"}

\* items[] and amounts[] of the create form
ItemLists == {<<"cake">>, <<"cake", "wine">>, <<"", "wine">>}

AmountLists == {<<s>> : s \in {"", "x", "-1", "0", "2"}} \cup {<<"1", "2">>}

\* amounts[i] || '1'
AmountAt(amounts, i) == IF i \in DOMAIN amounts THEN OrDefault(amounts[i], "1") ELSE "1"

\* parseInt(amounts[i] || '1', 10) || 1
AmountNeeded(str) ==
  LET n == ParseInt(str) IN IF ~IsNum(n) \/ n.num = 0 THEN 1 ELSE n.num

\* items.map(...).filter(n => n.item)
RECURSIVE NeededFrom(_, _, _)
NeededFrom(items, amounts, i) ==
  IF i > Len(items) THEN << >>
  ELSE IF items[i] = "" THEN NeededFrom(items, amounts, i + 1)
  ELSE <<[item |-> items[i], amount_needed |-> AmountNeeded(AmountAt(amounts, i)),
          claims |-> << >>]>> \o NeededFrom(items, amounts, i + 1)

BringError(status, msg) == [status |-> status, error |-> msg]

BringList == [status |-> 200, view |-> "bring/_list"]

InitBring ==
  /\ objects = {}
  /\ now = 1
  /\ last = NoCall
  /\ terminated = {}
  /\ req = [c \in Callers |-> Idle]
  /\ dirs = {}
  /\ minted = 0
  /\ reveals = NoReveals

\* POST /bring
PostBringOf(c, id, title, items, amounts) ==
    LET needed == NeededFrom(items, amounts, 1) IN
      /\ Fresh(id)
      /\ IF title = ""
           THEN /\ Reply(c, "POST /bring", BringError(200, "title"))
                /\ objects' = objects
         ELSE IF needed = << >>
           THEN /\ Reply(c, "POST /bring", BringError(200, "items"))
                /\ objects' = objects
         ELSE /\ objects' = InsertRow(objects, id, "bringlist",
                                      [title |-> title, needed |-> needed, custom |-> << >>],
                                      now, NoExpiry)
              /\ Reply(c, "POST /bring", [status |-> 200, created |-> TRUE])
      /\ Terminate
      /\ UNCHANGED <<now, last, dirs, minted, reveals>>

PostBring(c) ==
  \E id \in ListIds, title \in {"", "party"}, items \in ItemLists, amounts \in AmountLists :
    PostBringOf(c, id, title, items, amounts)

\* the object a bring-list route works on: get(id), then the type check
GetBringList(id) ==
  LET got == GetResult(objects, id, now) IN
    IF got # << >> /\ got[1].type = "bringlist" THEN got ELSE << >>

\* POST /b/:id/claim/:idx
PostClaimOf(c, id, idx, name, amountStr) ==
    LET amount == ParseInt(OrDefault(amountStr, "1"))
        bringlist == GetBringList(id) IN
      /\ IF name = "" \/ JsLess(amount, Num(1))
           THEN /\ Reply(c, "POST /b/:id/claim/:idx", BringError(200, "name and amount"))
                /\ UNCHANGED <<objects, minted>>
         ELSE IF bringlist = << >>
           THEN /\ Reply(c, "POST /b/:id/claim/:idx", BringError(404, "List not found"))
                /\ objects' = GetTable(objects, id, now)
                /\ UNCHANGED minted
         ELSE LET data == bringlist[1].data IN
           IF idx >= Len(data.needed)
             THEN /\ Reply(c, "POST /b/:id/claim/:idx", BringError(400, "Invalid item"))
                  /\ UNCHANGED <<objects, minted>>
           ELSE LET item == data.needed[idx + 1]
                    remaining == item.amount_needed - SumAmounts(item.claims) IN
             IF JsLess(Num(remaining), amount)
               THEN /\ Reply(c, "POST /b/:id/claim/:idx", [status |-> 200, error |-> "remaining", remaining |-> remaining])
                    /\ UNCHANGED <<objects, minted>>
               ELSE LET claimToken == minted + 1
                        claim == [name |-> name, amount |-> amount, token |-> claimToken]
                        newData == [data EXCEPT !.needed[idx + 1].claims = Append(@, claim)] IN
                    /\ minted < MaxTokens
                    /\ objects' = UpdateTable(objects, id, newData, now)
                    /\ minted' = claimToken
                    /\ Reply(c, "POST /b/:id/claim/:idx", BringList)
      /\ Terminate
      /\ UNCHANGED <<now, last, dirs, reveals>>

PostClaim(c) ==
  \E id \in Ids, idx \in Indexes, name \in Names, amountStr \in AmountStrings :
    PostClaimOf(c, id, idx, name, amountStr)

\* variant: the token of any claim of the need-line is accepted
DeleteClaimAnyToken(c, id, idx, claimIdx, token) ==
    LET bringlist == GetBringList(id)
        route == "DELETE /b/:id/claim/:idx/:claimIdx" IN
      /\ IF bringlist = << >>
           THEN /\ Reply(c, route, BringError(404, "List not found"))
                /\ objects' = GetTable(objects, id, now)
         ELSE LET data == bringlist[1].data IN
           IF idx >= Len(data.needed)
             THEN /\ Reply(c, route, BringError(400, "Invalid item"))
                  /\ objects' = objects
           ELSE IF claimIdx >= Len(data.needed[idx + 1].claims)
             THEN /\ Reply(c, route, BringError(400, "Invalid claim"))
                  /\ objects' = objects
           ELSE IF token = 0 \/ \A i \in DOMAIN data.needed[idx + 1].claims :
                                   data.needed[idx + 1].claims[i].token # token
             THEN /\ Reply(c, route, BringError(403, "Cannot delete this claim"))
                  /\ objects' = objects
           ELSE LET newData == [data EXCEPT !.needed[idx + 1].claims = Splice(@, claimIdx)] IN
                /\ objects' = UpdateTable(objects, id, newData, now)
                /\ Reply(c, route, BringList)
      /\ Terminate
      /\ UNCHANGED <<now, last, dirs, minted, reveals>>

\* DELETE /b/:id/claim/:idx/:claimIdx?token= (token 0: none given)
DeleteClaimOf(c, id, idx, claimIdx, token) ==
    LET bringlist == GetBringList(id)
        route == "DELETE /b/:id/claim/:idx/:claimIdx" IN
      /\ IF bringlist = << >>
           THEN /\ Reply(c, route, BringError(404, "List not found"))
                /\ objects' = GetTable(objects, id, now)
         ELSE LET data == bringlist[1].data IN
           IF idx >= Len(data.needed)
             THEN /\ Reply(c, route, BringError(400, "Invalid item"))
                  /\ objects' = objects
           ELSE IF claimIdx >= Len(data.needed[idx + 1].claims)
             THEN /\ Reply(c, route, BringError(400, "Invalid claim"))
                  /\ objects' = objects
           ELSE IF token = 0 \/ data.needed[idx + 1].claims[claimIdx + 1].token # token
             THEN /\ Reply(c, route, BringError(403, "Cannot delete this claim"))
                  /\ objects' = objects
           ELSE LET newData == [data EXCEPT !.needed[idx + 1].claims = Splice(@, claimIdx)] IN
                /\ objects' = UpdateTable(objects, id, newData, now)
                /\ Reply(c, route, BringList)
      /\ Terminate
      /\ UNCHANGED <<now, last, dirs, minted, reveals>>

DeleteClaim(c) ==
  \E id \in Ids, idx \in Indexes, claimIdx \in Indexes, token \in 0..MaxTokens :
    DeleteClaimOf(c, id, idx, claimIdx, token)

\* POST /b/:id/custom
PostCustomOf(c, id, name, item, amountStr) ==
    LET amount == ParseInt(OrDefault(amountStr, "1"))
        bringlist == GetBringList(id)
        route == "POST /b/:id/custom" IN
      /\ IF name = "" \/ item = "" \/ JsLess(amount, Num(1))
           THEN /\ Reply(c, route, BringError(200, "fill all fields"))
                /\ UNCHANGED <<objects, minted>>
         ELSE IF bringlist = << >>
           THEN /\ Reply(c, route, BringError(404, "List not found"))
                /\ objects' = GetTable(objects, id, now)
                /\ UNCHANGED minted
         ELSE LET data == bringlist[1].data
                  claimToken == minted + 1
                  entry == [name |-> name, item |-> item, amount |-> amount, token |-> claimToken]
                  newData == [data EXCEPT !.custom = Append(@, entry)] IN
              /\ minted < MaxTokens
              /\ objects' = UpdateTable(objects, id, newData, now)
              /\ minted' = claimToken
              /\ Reply(c, route, BringList)
      /\ Terminate
      /\ UNCHANGED <<now, last, dirs, reveals>>

PostCustom(c) ==
  \E id \in Ids, name \in Names, item \in {"", "salad"}, amountStr \in {"", "x", "0", "2"} :
    PostCustomOf(c, id, name, item, amountStr)

\* DELETE /b/:id/custom/:customIdx?token= (token 0: none given)
DeleteCustomOf(c, id, customIdx, token) ==
    LET bringlist == GetBringList(id)
        route == "DELETE /b/:id/custom/:customIdx" IN
      /\ IF bringlist = << >>
           THEN /\ Reply(c, route, BringError(404, "List not found"))
                /\ objects' = GetTable(objects, id, now)
         ELSE LET data == bringlist[1].data IN
           IF customIdx >= Len(data.custom)
             THEN /\ Reply(c, route, BringError(400, "Invalid item"))
                  /\ objects' = objects
           ELSE IF token = 0 \/ data.custom[customIdx + 1].token # token
             THEN /\ Reply(c, route, BringError(403, "Cannot delete this item"))
                  /\ objects' = objects
           ELSE LET newData == [data EXCEPT !.custom = Splice(@, customIdx)] IN
                /\ objects' = UpdateTable(objects, id, newData, now)
                /\ Reply(c, route, BringList)
      /\ Terminate
      /\ UNCHANGED <<now, last, dirs, minted, reveals>>

DeleteCustom(c) ==
  \E id \in Ids, customIdx \in Indexes, token \in 0..MaxTokens :
    DeleteCustomOf(c, id, customIdx, token)

NextBring ==
  \/ \E c \in Callers : PostBring(c)
  \/ \E c \in Callers : PostClaim(c)
  \/ \E c \in Callers : DeleteClaim(c)
  \/ \E c \in Callers : PostCustom(c)
  \/ \E c \in Callers : DeleteCustom(c)

SpecBring == InitBring /\ [][NextBring]_vars

BringLists == {r \in objects : r.type = "bringlist"}

\* C4: the store never holds a need-line whose claim amounts sum to more than
\* its amount_needed.
C4_ClaimsWithinNeed ==
  \A r \in BringLists :
    \A i \in DOMAIN Parse(r.data).needed :
      SumAmounts(Parse(r.data).needed[i].claims) <= Parse(r.data).needed[i].amount_needed

\* the same for the need-lines whose amount_needed is positive
ClaimsWithinPositiveNeed ==
  \A r \in BringLists :
    \A i \in DOMAIN Parse(r.data).needed :
      Parse(r.data).needed[i].amount_needed > 0 =>
        SumAmounts(Parse(r.data).needed[i].claims) <= Parse(r.data).needed[i].amount_needed

-----------------------------------------------------------------------------
(* Expenses: POST /expenses, POST /e/:id/entries, DELETE /e/:id/entries/:idx *)

MaxParticipantTokens == 4

MaxEntries == 1

\* participants[] of the create form
ParticipantLists == {<<"A", "B">>, <<"A", "">>}

\* split[] of the add-entry form: checked names, or whatever the request carries
SplitLists == {<< >>, <<"A", "B">>, <<"B", "Z">>}

EntryAmountStrings == {"", "x", "-1", "3"}

\* the currency field of the create form, left empty: the default applies
Currencies == {""}

\* participantsRaw.map(n => n.trim()).filter(n => n)
\* variant: blank names are kept
KeepBlank(names) == names

NonBlank(names) == SelectSeq(names, LAMBDA n : n # "")

\* participantNames.map(name => ({name, token: randomBytes(8)})): the tokens
\* drawn are first + 1, first + 2, ...
MintParticipants(names, first) ==
  [i \in DOMAIN names |-> [name |-> names[i], token |-> first + i]]

HandledFor(route, id, token, resp) ==
  [st |-> "done", route |-> route, id |-> id, token |-> token, resp |-> resp]

ReplyFor(c, route, id, token, resp) ==
  req' = [req EXCEPT ![c] = HandledFor(route, id, token, resp)]

ExpenseError(status, msg) == [status |-> status, error |-> msg]

ExpenseEntries == [status |-> 200, view |-> "expenses/_entries"]

\* the entries stored over all expenses
RECURSIVE EntriesStored(_)
EntriesStored(tbl) ==
  IF tbl = {} THEN 0
  ELSE LET r == CHOOSE x \in tbl : TRUE IN
         (IF r.type = "expense" THEN Len(Parse(r.data).entries) ELSE 0)
           + EntriesStored(tbl \ {r})

InitExpense ==
  /\ objects = {}
  /\ now = 1
  /\ last = NoCall
  /\ terminated = {}
  /\ req = [c \in Callers |-> Idle]
  /\ dirs = {}
  /\ minted = 0
  /\ reveals = NoReveals

\* POST /expenses
PostExpensesOf(c, id, title, currency, names) ==
  LET participantNames == NonBlank(names)
      route == "POST /expenses" IN
    /\ Fresh(id)
    /\ IF title = ""
         THEN /\ ReplyFor(c, route, "", 0, ExpenseError(200, "title"))
              /\ UNCHANGED <<objects, minted>>
       ELSE IF Len(participantNames) < 2
         THEN /\ ReplyFor(c, route, "", 0, ExpenseError(200, "at least 2 participants"))
              /\ UNCHANGED <<objects, minted>>
       ELSE /\ minted + Len(participantNames) <= MaxParticipantTokens
            /\ objects' = InsertRow(objects, id, "expense",
                                    [title |-> title,
                                     currency |-> OrDefault(currency, "EUR"),
                                     participants |-> MintParticipants(participantNames, minted),
                                     entries |-> << >>],
                                    now, NoExpiry)
            /\ minted' = minted + Len(participantNames)
            /\ ReplyFor(c, route, id, 0, [status |-> 200, created |-> TRUE])
    /\ Terminate
    /\ UNCHANGED <<now, last, dirs, reveals>>

PostExpenses(c) ==
  \E id \in Ids, title \in {"", "trip"}, currency \in Currencies,
     names \in ParticipantLists :
    PostExpensesOf(c, id, title, currency, names)

\* the object an expense route works on: get(id), then the type check
GetExpense(id) ==
  LET got == GetResult(objects, id, now) IN
    IF got # << >> /\ got[1].type = "expense" THEN got ELSE << >>

\* data.participants.find(p => p.token === query.token); token 0: none given
FindParticipantAny(participants, token) == <<participants[1]>>

FindParticipant(participants, token) ==
  LET hits == SelectSeq(participants, LAMBDA p : p.token = token) IN
    IF token = 0 \/ hits = << >> THEN << >> ELSE <<hits[1]>>

\* amount <= 0 on JavaScript numbers: false when amount is NaN
JsAtMost(a, b) == IsNum(a) /\ IsNum(b) /\ a.num <= b.num

\* POST /e/:id/entries?token=
PostEntryOf(c, id, token, description, amountStr, split) ==
  LET route == "POST /e/:id/entries"
      expense == GetExpense(id) IN
    /\ IF expense = << >>
         THEN /\ ReplyFor(c, route, id, token, ExpenseError(200, "Expense share not found"))
              /\ objects' = GetTable(objects, id, now)
       ELSE LET data == expense[1].data
                participant == FindParticipant(data.participants, token)
                amount == ParseInt(OrDefault(amountStr, "0")) IN
         IF participant = << >>
           THEN /\ ReplyFor(c, route, id, token, ExpenseError(403, "Invalid participant token"))
                /\ objects' = objects
         ELSE IF description = ""
           THEN /\ ReplyFor(c, route, id, token, ExpenseError(200, "description"))
                /\ objects' = objects
         ELSE IF JsAtMost(amount, Num(0))
           THEN /\ ReplyFor(c, route, id, token, ExpenseError(200, "valid amount"))
                /\ objects' = objects
         ELSE IF split = << >>
           THEN /\ ReplyFor(c, route, id, token, ExpenseError(200, "split"))
                /\ objects' = objects
         ELSE LET entry == [description |-> description, amount |-> amount,
                            paid_by |-> participant[1].name, split_between |-> split]
                  newData == [data EXCEPT !.entries = Append(@, entry)] IN
              /\ EntriesStored(objects) < MaxEntries
              /\ objects' = UpdateTable(objects, id, newData, now)
              /\ ReplyFor(c, route, id, token, ExpenseEntries)
    /\ Terminate
    /\ UNCHANGED <<now, last, dirs, minted, reveals>>

PostEntry(c) ==
  \E id \in Ids, token \in 0..MaxParticipantTokens, description \in {"", "taxi"},
     amountStr \in EntryAmountStrings, split \in SplitLists :
    PostEntryOf(c, id, token, description, amountStr, split)

\* DELETE /e/:id/entries/:idx?token=
DeleteEntryOf(c, id, token, idx) ==
  LET route == "DELETE /e/:id/entries/:idx"
      expense == GetExpense(id) IN
    /\ IF expense = << >>
         THEN /\ ReplyFor(c, route, id, token, ExpenseError(200, "Expense share not found"))
              /\ objects' = GetTable(objects, id, now)
       ELSE LET data == expense[1].data
                participant == FindParticipant(data.participants, token) IN
         IF participant = << >>
           THEN /\ ReplyFor(c, route, id, token, ExpenseError(403, "Invalid participant token"))
                /\ objects' = objects
         ELSE /\ objects' = IF idx >= 0 /\ idx < Len(data.entries)
                              THEN UpdateTable(objects, id,
                                               [data EXCEPT !.entries = Splice(@, idx)], now)
                              ELSE objects
              /\ ReplyFor(c, route, id, token, ExpenseEntries)
    /\ Terminate
    /\ UNCHANGED <<now, last, dirs, minted, reveals>>

DeleteEntry(c) ==
  \E id \in Ids, token \in 0..MaxParticipantTokens, idx \in Indexes :
    DeleteEntryOf(c, id, token, idx)

GetParticipantPageHides(c, id, token) ==
  LET route == "GET /e/:id/p/:token"
      expense == GetExpense(id) IN
    /\ objects' = GetTable(objects, id, now)
    /\ IF expense = << >> \/ FindParticipant(expense[1].data.participants, token) = << >>
         THEN ReplyFor(c, route, id, token, [status |-> 404, view |-> "404"])
       ELSE ReplyFor(c, route, id, token, [status |-> 200, view |-> "expenses/participant"])
    /\ Terminate
    /\ UNCHANGED <<now, last, dirs, minted, reveals>>

\* GET /e/:id/p/:token
GetParticipantPageOf(c, id, token) ==
  LET route == "GET /e/:id/p/:token"
      expense == GetExpense(id) IN
    /\ objects' = GetTable(objects, id, now)
    /\ IF expense = << >>
         THEN ReplyFor(c, route, id, token, [status |-> 404, view |-> "404"])
       ELSE IF FindParticipant(expense[1].data.participants, token) = << >>
         THEN ReplyFor(c, route, id, token, ExpenseError(403, "Invalid participant token"))
       ELSE ReplyFor(c, route, id, token, [status |-> 200, view |-> "expenses/participant"])
    /\ Terminate
    /\ UNCHANGED <<now, last, dirs, minted, reveals>>

GetParticipantPage(c) ==
  \E id \in Ids, token \in 0..MaxParticipantTokens : GetParticipantPageOf(c, id, token)

NextExpense ==
  \/ \E c \in Callers : PostExpenses(c)
  \/ \E c \in Callers : PostEntry(c)
  \/ \E c \in Callers : DeleteEntry(c)
  \/ \E c \in Callers : GetParticipantPage(c)

SpecExpense == InitExpense /\ [][NextExpense]_vars

Expenses == {r \in objects : r.type = "expense"}

\* Settlement: each name in split_between owes amount / |split_between| to
\* paid_by.  Balances are kept doubled, which is exact for the splits of one or
\* two names the model submits; an amount stored as null counts as 0.
RECURSIVE PaidTwice(_, _)
PaidTwice(name, entries) ==
  IF entries = << >> THEN 0
  ELSE (IF entries[1].paid_by = name THEN 2 * ToNumber(entries[1].amount) ELSE 0)
         + PaidTwice(name, Tail(entries))

RECURSIVE OwedTwice(_, _)
OwedTwice(name, entries) ==
  IF entries = << >> THEN 0
  ELSE (IF \E i \in DOMAIN entries[1].split_between : entries[1].split_between[i] = name
          THEN (2 * ToNumber(entries[1].amount)) \div Len(entries[1].split_between)
          ELSE 0)
         + OwedTwice(name, Tail(entries))

NetBalanceTwice(name, entries) == PaidTwice(name, entries) - OwedTwice(name, entries)

RECURSIVE SumNetTwice(_, _)
SumNetTwice(participants, entries) ==
  IF participants = << >> THEN 0
  ELSE NetBalanceTwice(participants[1].name, entries) + SumNetTwice(Tail(participants), entries)

\* C5: in every stored expense the net balances of the participants sum to zero.
C5_SettlementZeroSum ==
  \A r \in Expenses : SumNetTwice(Parse(r.data).participants, Parse(r.data).entries) = 0

TokensOf(tbl, id) ==
  {Parse(r.data).participants[i].token :
     r \in {x \in tbl : x.id = id /\ x.type = "expense"},
     i \in 1..2}

EntryRoutes == {"POST /e/:id/entries", "DELETE /e/:id/entries/:idx"}

\* C6: an add-entry or delete-entry request against an expense whose token is
\* absent, unknown or a token of another expense only is answered Forbidden and
\* leaves the table as it was.
C6_TokenOfThisExpense ==
  [][\A c \in Callers :
       (/\ req'[c].route \in EntryRoutes
        /\ \E r \in Expenses : r.id = req'[c].id
        /\ req'[c].token \notin TokensOf(objects, req'[c].id))
       => (req'[c].resp.status = 403 /\ objects' = objects)]_vars

C6_Witness ==
  \E c \in Callers :
    /\ req[c].route \in EntryRoutes
    /\ req[c].resp.status = 403
    /\ \E r \in Expenses : r.id = req[c].id /\ Len(Parse(r.data).entries) = 1
    /\ \E r \in Expenses : r.id # req[c].id /\ req[c].token \in TokensOf(objects, r.id)

-----------------------------------------------------------------------------
(* File shares: POST /files, GET /files/:id, DELETE /files/:id, the note   *)
(* routes GET /notes/:id and DELETE /notes/:id, and the periodic cleanup.  *)
(* dirs holds the ids that have a directory under data/files.              *)

\* the expiry field of the upload form, in days; the clock counts days here
ExpiryDays == {1, 3}

UploadParts == {"none", "file", "broken"}

Uploading == {req[c].id : c \in {d \in Clients : req[d].st = "uploading"}}

\* a share id reaches a requester only in the response that ends the upload
Disclosed(id) == id \notin Uploading

Answer(c, route, id, resp) ==
  req' = [req EXCEPT ![c] = [Idle EXCEPT !.st = "done", !.route = route,
                                         !.id = id, !.resp = resp]]

\* fs.existsSync(shareDir) then fs.rmSync(shareDir, {recursive, force})
RmShareDir(d, id) == d \ {id}

\* variant: the directory is left to the periodic cleanup
cleanupShareDirLater(d, shareId) == d

cleanupShareDir(d, shareId) == RmShareDir(d, shareId)

InitFiles ==
  /\ objects = {}
  /\ now = 1
  /\ last = NoCall
  /\ terminated = {}
  /\ req = [c \in Clients |-> Idle]
  /\ dirs = {}
  /\ minted = 0
  /\ reveals = NoReveals

\* POST /files up to its first await: the share id is drawn and the directory made
PostFilesBegin(c) ==
  /\ req[c].st # "uploading"
  /\ \E shareId \in Ids :
       /\ Fresh(shareId)
       /\ shareId \notin dirs
       /\ dirs' = dirs \cup {shareId}
       /\ req' = [req EXCEPT ![c] = [Idle EXCEPT !.st = "uploading",
                                                 !.route = "POST /files",
                                                 !.id = shareId]]
  /\ UNCHANGED <<objects, now, last, terminated, minted, reveals>>

\* POST /files after the parts have been consumed
PostFilesEndOf(c, parts, days) ==
  LET shareId == req[c].id
      route == "POST /files" IN
    /\ req[c].st = "uploading"
    /\ IF parts = "broken"
         THEN /\ dirs' = RmShareDir(dirs, shareId)
              /\ objects' = objects
              /\ Answer(c, route, shareId, [status |-> 200, error |-> "Upload failed"])
       ELSE IF parts = "none"
         THEN /\ dirs' = dirs \ {shareId}
              /\ objects' = objects
              /\ Answer(c, route, shareId, [status |-> 200, error |-> "No files uploaded"])
       ELSE IF InsertRejected(objects, shareId)
         THEN /\ dirs' = RmShareDir(dirs, shareId)
              /\ objects' = objects
              /\ Answer(c, route, shareId, [status |-> 200, error |-> "Upload failed"])
       ELSE /\ objects' = InsertRow(objects, shareId, "fileshare", [files |-> <<"f">>],
                                    now, <<now + days>>)
            /\ dirs' = dirs
            /\ Answer(c, route, shareId, [status |-> 200, created |-> TRUE])
    /\ Terminate
    /\ UNCHANGED <<now, last, minted, reveals>>

PostFilesEnd(c) ==
  \E parts \in UploadParts, days \in ExpiryDays : PostFilesEndOf(c, parts, days)

\* GET /files/:id
GetFilesOf(c, id) ==
  LET share == GetResult(objects, id, now) IN
    /\ req[c].st # "uploading"
    /\ Disclosed(id)
    /\ objects' = GetTable(objects, id, now)
    /\ IF share = << >>
         THEN /\ dirs' = cleanupShareDir(dirs, id)
              /\ Answer(c, "GET /files/:id", id, [status |-> 200, view |-> "files/gone"])
         ELSE /\ dirs' = dirs
              /\ Answer(c, "GET /files/:id", id, [status |-> 200, view |-> "files/show"])
    /\ Terminate
    /\ UNCHANGED <<now, last, minted, reveals>>

GetFiles(c) == \E id \in Ids : GetFilesOf(c, id)

\* DELETE /files/:id
DeleteFilesOf(c, id) ==
  LET share == GetResult(objects, id, now) IN
    /\ req[c].st # "uploading"
    /\ Disclosed(id)
    /\ IF share = << >>
         THEN /\ objects' = GetTable(objects, id, now)
              /\ dirs' = cleanupShareDir(dirs, id)
              /\ Answer(c, "DELETE /files/:id", id, [status |-> 200, error |-> "Share not found"])
         ELSE /\ dirs' = RmShareDir(dirs, id)
              /\ objects' = DeleteRows(objects, id)
              /\ Answer(c, "DELETE /files/:id", id, [status |-> 200, deleted |-> TRUE])
    /\ Terminate
    /\ UNCHANGED <<now, last, minted, reveals>>

DeleteFiles(c) == \E id \in Ids : DeleteFilesOf(c, id)

\* GET /notes/:id
GetNoteOf(c, id) ==
  LET note == GetResult(objects, id, now) IN
    /\ req[c].st # "uploading"
    /\ Disclosed(id)
    /\ objects' = GetTable(objects, id, now)
    /\ IF note = << >>
         THEN Answer(c, "GET /notes/:id", id, [status |-> 404, view |-> "404"])
         ELSE Answer(c, "GET /notes/:id", id, [status |-> 200, view |-> "notes/show"])
    /\ Terminate
    /\ UNCHANGED <<now, last, dirs, minted, reveals>>

GetNote(c) == \E id \in Ids : GetNoteOf(c, id)

\* DELETE /notes/:id
DeleteNoteOf(c, id) ==
  /\ req[c].st # "uploading"
  /\ Disclosed(id)
  /\ objects' = DeleteRows(objects, id)
  /\ IF RemoveResult(objects, id)
       THEN Answer(c, "DELETE /notes/:id", id, [status |-> 200, deleted |-> TRUE])
       ELSE Answer(c, "DELETE /notes/:id", id, [status |-> 200, error |-> "Note not found"])
  /\ Terminate
  /\ UNCHANGED <<now, last, dirs, minted, reveals>>

DeleteNote(c) == \E id \in Ids : DeleteNoteOf(c, id)

\* the orders in which a SELECT without ORDER BY may return the ids of set S
Orders(S) ==
  {order \in [1..Cardinality(S) -> S] :
     \A i \in DOMAIN order : \A j \in DOMAIN order : order[i] = order[j] => i = j}

\* for (const row of purged) inside the one try block: existsSync, then rmSync;
\* the first rmSync that throws (its directory is in failing) ends the loop
RECURSIVE SweepDirs(_, _, _)
SweepDirs(d, order, failing) ==
  IF order = << >> THEN d
  ELSE IF order[1] \in d /\ order[1] \in failing THEN d
  ELSE SweepDirs(d \ {order[1]}, Tail(order), failing)

PurgedShares(tbl, t) == {row.id : row \in {p \in PurgeResult(tbl, t) : p.type = "fileshare"}}

\* setInterval callback: purgeExpired, then the directory of every purged
\* fileshare; failing holds the directories whose rmSync throws this time
CleanupOf(order, failing) ==
  /\ PurgeResult(objects, now) # {}
  /\ order \in Orders(PurgedShares(objects, now))
  /\ objects' = PurgeTable(objects, now)
  /\ dirs' = SweepDirs(dirs, order, failing)
  /\ Terminate
  /\ UNCHANGED <<now, last, req, minted, reveals>>

Cleanup ==
  \E failing \in SUBSET Ids :
    \E order \in Orders(PurgedShares(objects, now)) : CleanupOf(order, failing)

NextFiles ==
  \/ \E c \in Clients : PostFilesBegin(c)
  \/ \E c \in Clients : PostFilesEnd(c)
  \/ \E c \in Clients : GetFiles(c)
  \/ \E c \in Clients : DeleteFiles(c)
  \/ \E c \in Clients : GetNote(c)
  \/ \E c \in Clients : DeleteNote(c)
  \/ Cleanup
  \/ Tick

SpecFiles == InitFiles /\ [][NextFiles]_vars

FileShares(tbl) == {r \in tbl : r.type = "fileshare"}

\* C7: a step that deletes a fileshare row leaves no directory for its id.
C7_DirectoryGoesWithRow ==
  [][\A r \in FileShares(objects) :
       r.id \notin IdsOf(objects') => r.id \notin dirs']_vars

\* the file routes, and a cleanup in which no rmSync throws, taken alone do keep
\* the directory in step
FileRouteKeepsStep ==
  [][(\E c \in Clients : req'[c] # req[c] /\ req'[c].route \in {"GET /files/:id", "DELETE /files/:id"})
       \/ (\E order \in Orders(PurgedShares(objects, now)) : CleanupOf(order, {}))
     => \A r \in FileShares(objects) :
          r.id \notin IdsOf(objects') => r.id \notin dirs']_vars


\* C17: in a cleanup run, a directory whose removal throws does not stop the
\* removal of the other directories of the same batch: every purged fileshare
\* whose own rmSync does not throw has no directory afterwards.
C17_FailureDoesNotAbortBatch ==
  [][\A failing \in SUBSET Ids :
       \A order \in Orders(PurgedShares(objects, now)) :
         CleanupOf(order, failing) =>
           \A id \in PurgedShares(objects, now) : id \notin failing => id \notin dirs']_vars


\* the cleanup timer keeps firing
SpecFilesLive == SpecFiles /\ WF_vars(Cleanup)

\* C18: with the cleanup timer firing, every fileshare whose expires_at has
\* passed ends up with neither a row nor a directory, whatever requests are made.
C18_ExpiredShareCollected ==
  \A id \in Ids :
    (\E r \in FileShares(objects) : r.id = id /\ InPast(r, now))
      ~> (~HasRow(objects, id) /\ id \notin dirs)


-----------------------------------------------------------------------------
(* File shares when the process may die inside a handler: the table and the *)
(* directories survive, the requests in flight are lost.                   *)

FileNames == {"f", "g"}

\* GET /files/:id/download/:filename
GetDownloadOf(c, id, filename) ==
  LET share == GetResult(objects, id, now)
      route == "GET /files/:id/download/:filename" IN
    /\ req[c].st # "uploading"
    /\ Disclosed(id)
    /\ objects' = GetTable(objects, id, now)
    /\ IF share = << >>
         THEN /\ dirs' = cleanupShareDir(dirs, id)
              /\ Answer(c, route, id, [status |-> 404, error |-> "Not found"])
       ELSE /\ dirs' = dirs
            /\ IF "files" \notin DOMAIN share[1].data
                    \/ \A i \in DOMAIN share[1].data.files : share[1].data.files[i] # filename
                 THEN Answer(c, route, id, [status |-> 404, error |-> "File not found"])
               ELSE IF id \notin dirs
                 THEN Answer(c, route, id, [status |-> 404, error |-> "File not found"])
               ELSE Answer(c, route, id, [status |-> 200, file |-> filename])
    /\ Terminate
    /\ UNCHANGED <<now, last, minted, reveals>>

GetDownload(c) == \E id \in Ids, filename \in FileNames : GetDownloadOf(c, id, filename)

\* GET /files/:id/zip: the archive holds the listed files that exist on disk
GetZipOf(c, id) ==
  LET share == GetResult(objects, id, now)
      route == "GET /files/:id/zip" IN
    /\ req[c].st # "uploading"
    /\ Disclosed(id)
    /\ objects' = GetTable(objects, id, now)
    /\ IF share = << >>
         THEN /\ dirs' = cleanupShareDir(dirs, id)
              /\ Answer(c, route, id, [status |-> 404, error |-> "Not found"])
       ELSE /\ dirs' = dirs
            /\ Answer(c, route, id,
                      [status |-> 200,
                       zip |-> IF id \in dirs /\ "files" \in DOMAIN share[1].data
                                 THEN share[1].data.files ELSE << >>])
    /\ Terminate
    /\ UNCHANGED <<now, last, minted, reveals>>

GetZip(c) == \E id \in Ids : GetZipOf(c, id)

\* DELETE /files/:id, the process dying after rmSync and before remove
DeleteFilesCrash(id) ==
  /\ Disclosed(id)
  /\ GetResult(objects, id, now) # << >>
  /\ dirs' = RmShareDir(dirs, id)
  /\ req' = [c \in Clients |-> Idle]
  /\ UNCHANGED <<objects, now, last, terminated, minted, reveals>>

\* the cleanup callback, the process dying after purgeExpired and before rmSync
CleanupCrash ==
  /\ PurgeResult(objects, now) # {}
  /\ objects' = PurgeTable(objects, now)
  /\ req' = [c \in Clients |-> Idle]
  /\ Terminate
  /\ UNCHANGED <<now, last, dirs, minted, reveals>>

NextFilesCrash ==
  \/ \E c \in Clients : PostFilesBegin(c)
  \/ \E c \in Clients : PostFilesEnd(c)
  \/ \E c \in Clients : GetFiles(c)
  \/ \E c \in Clients : GetDownload(c)
  \/ \E c \in Clients : GetZip(c)
  \/ \E c \in Clients : DeleteFiles(c)
  \/ \E id \in Ids : DeleteFilesCrash(id)
  \/ CleanupCrash
  \/ Cleanup
  \/ Tick

SpecFilesCrash == InitFiles /\ [][NextFilesCrash]_vars

\* one half of a deletion has happened: a row without its directory, or a
\* directory without its row
PartlyDeleted(id) ==
  \/ (\E r \in FileShares(objects) : r.id = id) /\ id \notin dirs
  \/ ~HasRow(objects, id) /\ id \in dirs

\* C19: for a share left partly deleted, the view, download and zip routes
\* answer not found, and DELETE /files/:id completes without error and leaves
\* neither row nor directory.
C19_PartlyDeletedIsNotFound ==
  [][\A c \in Clients, id \in Ids :
       PartlyDeleted(id) =>
         /\ GetFilesOf(c, id) => req'[c].resp.view = "files/gone"
         /\ \A filename \in FileNames :
              GetDownloadOf(c, id, filename) => req'[c].resp.status = 404
         /\ GetZipOf(c, id) => req'[c].resp.status = 404
         /\ DeleteFilesOf(c, id) =>
              (req'[c].resp.status = 200 /\ ~HasRow(objects', id) /\ id \notin dirs')]_vars

\* what does hold: a leftover directory without a row is answered not found by
\* every file route and removed by it, and a repeated delete removes either
\* leftover
LeftoverDirectoryIsNotFound ==
  [][\A c \in Clients, id \in Ids :
       /\ (~HasRow(objects, id) /\ id \in dirs) =>
            /\ GetFilesOf(c, id) => (req'[c].resp.view = "files/gone" /\ id \notin dirs')
            /\ \A filename \in FileNames :
                 GetDownloadOf(c, id, filename) => (req'[c].resp.status = 404 /\ id \notin dirs')
            /\ GetZipOf(c, id) => (req'[c].resp.status = 404 /\ id \notin dirs')
       /\ PartlyDeleted(id) =>
            (DeleteFilesOf(c, id) =>
               (req'[c].resp.status = 200 /\ ~HasRow(objects', id) /\ id \notin dirs'))]_vars

-----------------------------------------------------------------------------
(* The token-gated routes of the expense and the bring list tool, served by *)
(* one process over one table.                                             *)

\* well-formed requests that create the objects the gated routes work on
CreateForGated(c) ==
  \/ \E id \in Ids : PostExpensesOf(c, id, "trip", "", <<"A", "B">>)
  \/ \E id \in ListIds : PostBringOf(c, id, "party", <<"cake">>, <<"2">>)
  \/ \E id \in Ids : PostClaimOf(c, id, 0, "ann", "1")
  \/ \E id \in Ids : PostCustomOf(c, id, "ann", "salad", "2")

\* add-entry requests with a well-formed body and any token
PostEntryGated(c) ==
  \E id \in Ids, token \in 0..MaxParticipantTokens :
    PostEntryOf(c, id, token, "taxi", "3", <<"A", "B">>)

NextGated ==
  \/ \E c \in Callers : CreateForGated(c)
  \/ \E c \in Callers : GetParticipantPage(c)
  \/ \E c \in Callers : PostEntryGated(c)
  \/ \E c \in Callers : DeleteEntry(c)
  \/ \E c \in Callers : DeleteClaim(c)
  \/ \E c \in Callers : DeleteCustom(c)

SpecGated == InitExpense /\ [][NextGated]_vars

\* the responses that say the object was not found
NotFoundResponse(resp) ==
  \/ resp.status = 404
  \/ "error" \in DOMAIN resp /\ resp.error = "Expense share not found"

\* a row of this type and id that is not expired
Live(type, id) == \E r \in objects : r.id = id /\ r.type = type /\ ~InPast(r, now)

\* what a gated request of caller c must be answered
GateOutcome(c, exists, unauthorized) ==
  /\ (exists /\ unauthorized) => req'[c].resp.status = 403
  /\ NotFoundResponse(req'[c].resp) => ~exists

ClaimsAt(id, idx) ==
  LET lists == {r \in BringLists : r.id = id} IN
    IF lists = {} THEN << >>
    ELSE LET needed == Parse((CHOOSE r \in lists : TRUE).data).needed IN
      IF idx < Len(needed) THEN needed[idx + 1].claims ELSE << >>

CustomOf(id) ==
  LET lists == {r \in BringLists : r.id = id} IN
    IF lists = {} THEN << >> ELSE Parse((CHOOSE r \in lists : TRUE).data).custom

GatedExpenseRoutes ==
  {"GET /e/:id/p/:token", "POST /e/:id/entries", "DELETE /e/:id/entries/:idx"}

\* C16: a token-gated request (participant page, add entry, delete entry, delete
\* claim, delete custom item) on an existing object and sub-resource with a wrong
\* or absent token is answered Forbidden, and it is answered not found only
\* when no unexpired object of the route's type has that id.
C16_ForbiddenNotNotFound ==
  [][\A c \in Callers, id \in Ids :
       /\ \A token \in 0..MaxParticipantTokens :
            (req'[c].route \in GatedExpenseRoutes /\ req'[c].id = id
               /\ req'[c].token = token) =>
              /\ (req'[c].route = "GET /e/:id/p/:token" /\ GetParticipantPageOf(c, id, token)) =>
                   GateOutcome(c, Live("expense", id), token \notin TokensOf(objects, id))
              /\ (req'[c].route = "POST /e/:id/entries"
                    /\ PostEntryOf(c, id, token, "taxi", "3", <<"A", "B">>)) =>
                   GateOutcome(c, Live("expense", id), token \notin TokensOf(objects, id))
              /\ \A idx \in Indexes :
                   (req'[c].route = "DELETE /e/:id/entries/:idx"
                      /\ DeleteEntryOf(c, id, token, idx)) =>
                     GateOutcome(c, Live("expense", id), token \notin TokensOf(objects, id))
       /\ \A token \in 0..MaxTokens :
            /\ \A idx \in Indexes, claimIdx \in Indexes :
                 (req'[c].route = "DELETE /b/:id/claim/:idx/:claimIdx"
                    /\ DeleteClaimOf(c, id, idx, claimIdx, token)) =>
                   IF claimIdx < Len(ClaimsAt(id, idx))
                     THEN GateOutcome(c, Live("bringlist", id),
                                      token # ClaimsAt(id, idx)[claimIdx + 1].token)
                     ELSE GateOutcome(c, Live("bringlist", id), FALSE)
            /\ \A customIdx \in Indexes :
                 (req'[c].route = "DELETE /b/:id/custom/:customIdx"
                    /\ DeleteCustomOf(c, id, customIdx, token)) =>
                   IF customIdx < Len(CustomOf(id))
                     THEN GateOutcome(c, Live("bringlist", id),
                                      token # CustomOf(id)[customIdx + 1].token)
                     ELSE GateOutcome(c, Live("bringlist", id), FALSE)]_vars

C16_Witness ==
  \E c \in Callers :
    /\ req[c].route = "DELETE /b/:id/claim/:idx/:claimIdx"
    /\ req[c].resp.status = 403
    /\ Expenses # {}
    /\ \E r \in BringLists : Len(Parse(r.data).needed[1].claims) = 1 /\ Len(Parse(r.data).custom) = 1

-----------------------------------------------------------------------------
(* Lazy expiry of a file share through the file routes.                    *)

ExpiredShare(id) == \E r \in FileShares(objects) : r.id = id /\ InPast(r, now)

FileRoutes ==
  {"GET /files/:id", "GET /files/:id/download/:filename", "GET /files/:id/zip",
   "DELETE /files/:id"}

\* the responses of the file routes that say the share was not found
ShareNotFound(resp) ==
  \/ "view" \in DOMAIN resp /\ resp.view = "files/gone"
  \/ resp.status = 404
  \/ "error" \in DOMAIN resp /\ resp.error = "Share not found"

-----------------------------------------------------------------------------
(* Deleting a claim or a custom item of a bring list.                      *)

\* the sequence s without its element at the 0-based position i
Without(s, i) == [j \in 1..(Len(s) - 1) |-> IF j <= i THEN s[j] ELSE s[j + 1]]

\* the table in which the payload of row id is replaced by data
WithData(tbl, id, data) ==
  {IF r.id = id THEN [r EXCEPT !.data = Stringify(data)] ELSE r : r \in tbl}

BringData(id) == Parse((CHOOSE r \in BringLists : r.id = id).data)

\* C22: a delete request for a claim or a custom item at an index removes that
\* element, and nothing else, only when the supplied token equals the token
\* stored on that very element; with no token or the token of another element
\* the answer is 403 and the table is unchanged, whatever deletions came before.
C22_OnlyOwnTokenDeletes ==
  [][\A c \in Callers :
       /\ req'[c].route = "DELETE /b/:id/claim/:idx/:claimIdx" =>
            \A id \in Ids, idx \in Indexes, claimIdx \in Indexes :
              (Live("bringlist", id) /\ claimIdx < Len(ClaimsAt(id, idx))) =>
                \A token \in 0..MaxTokens :
                  DeleteClaimOf(c, id, idx, claimIdx, token) =>
                    IF token # 0 /\ token = ClaimsAt(id, idx)[claimIdx + 1].token
                      THEN /\ req'[c].resp = BringList
                           /\ objects' = WithData(objects, id,
                                [BringData(id) EXCEPT
                                   !.needed[idx + 1].claims = Without(@, claimIdx)])
                      ELSE /\ req'[c].resp.status = 403
                           /\ objects' = objects
       /\ req'[c].route = "DELETE /b/:id/custom/:customIdx" =>
            \A id \in Ids, customIdx \in Indexes :
              (Live("bringlist", id) /\ customIdx < Len(CustomOf(id))) =>
                \A token \in 0..MaxTokens :
                  DeleteCustomOf(c, id, customIdx, token) =>
                    IF token # 0 /\ token = CustomOf(id)[customIdx + 1].token
                      THEN /\ req'[c].resp = BringList
                           /\ objects' = WithData(objects, id,
                                [BringData(id) EXCEPT !.custom = Without(@, customIdx)])
                      ELSE /\ req'[c].resp.status = 403
                           /\ objects' = objects]_vars

\* both tokens were given out, the first element is deleted, the second one
\* has moved to index 0, and the last delete request was answered 403
C22_Witness ==
  \E c \in Callers, r \in BringLists :
    /\ req[c].route = "DELETE /b/:id/claim/:idx/:claimIdx"
    /\ req[c].resp.status = 403
    /\ minted = 2
    /\ Len(Parse(r.data).needed[1].claims) = 1
    /\ Parse(r.data).needed[1].claims[1].token = 2
    /\ Len(Parse(r.data).custom) = 0

-----------------------------------------------------------------------------
(* Claiming a need-line of a bring list.                                   *)

\* the amounts of the stored claims added up (a stored null counts as nothing)
RECURSIVE ClaimedTotal(_)
ClaimedTotal(claims) ==
  IF claims = << >> THEN 0
  ELSE (IF IsNum(claims[1].amount) THEN claims[1].amount.num ELSE 0)
         + ClaimedTotal(Tail(claims))

\* amount_needed minus the sum of the existing claims of need-line idx
Remaining(id, idx) ==
  BringData(id).needed[idx + 1].amount_needed - ClaimedTotal(ClaimsAt(id, idx))

\* the tokens stored on the claims and custom items of bring list id
BringTokens(id) ==
  {BringData(id).custom[i].token : i \in DOMAIN BringData(id).custom}
    \cup UNION {{BringData(id).needed[j].claims[i].token :
                   i \in DOMAIN BringData(id).needed[j].claims} :
                j \in DOMAIN BringData(id).needed}

\* a claim request with a name, a valid need-line of an existing list and an
\* amount of at least 1
ClaimRequest(id, idx, amountStr) ==
  /\ Live("bringlist", id)
  /\ idx < Len(BringData(id).needed)
  /\ IsNum(ParseInt(OrDefault(amountStr, "1")))
  /\ ParseInt(OrDefault(amountStr, "1")).num >= 1

\* C23: a claim whose amount exceeds the remaining capacity of the need-line is
\* rejected in a 200 response that reports the remaining quantity (amount_needed
\* minus the sum of the existing claims), and the table is unchanged.
C23_RejectionReportsRemaining ==
  [][\A c \in Callers :
       req'[c].route = "POST /b/:id/claim/:idx" =>
         \A id \in Ids, idx \in Indexes, amountStr \in AmountStrings :
           (/\ ClaimRequest(id, idx, amountStr)
            /\ ParseInt(OrDefault(amountStr, "1")).num > Remaining(id, idx)
            /\ PostClaimOf(c, id, idx, "ann", amountStr)) =>
             /\ req'[c].resp = [status |-> 200, error |-> "remaining",
                                remaining |-> Remaining(id, idx)]
             /\ objects' = objects]_vars

\* a request for 2 on a need-line of 2 with one claim of 1 was answered
\* "only 1 remaining"
C23_Witness ==
  \E c \in Callers, r \in BringLists :
    /\ req[c].route = "POST /b/:id/claim/:idx"
    /\ "remaining" \in DOMAIN req[c].resp
    /\ req[c].resp.remaining = 1
    /\ Parse(r.data).needed[1].amount_needed = 2
    /\ Len(Parse(r.data).needed[1].claims) = 1
    /\ Parse(r.data).needed[1].claims[1].amount = Num(1)
    /\ Len(Parse(r.data).needed) = 1

\* C24: a claim request with a name, an amount >= 1 and a valid need-line of an
\* existing list is accepted exactly when the amount is at most amount_needed
\* minus the sum of the existing claims of the need-line; an accepted request
\* appends one claim {name, amount, fresh token} to that need-line and changes
\* nothing else, a rejected one changes nothing.
C24_AcceptedIffWithinRemaining ==
  [][\A c \in Callers :
       req'[c].route = "POST /b/:id/claim/:idx" =>
         \A id \in Ids, idx \in Indexes, amountStr \in AmountStrings :
           (ClaimRequest(id, idx, amountStr) /\ PostClaimOf(c, id, idx, "ann", amountStr)) =>
             LET amount == ParseInt(OrDefault(amountStr, "1")).num IN
               IF amount <= Remaining(id, idx)
                 THEN /\ req'[c].resp = BringList
                      /\ \E token \in 1..(MaxTokens + 1) :
                           /\ token \notin BringTokens(id)
                           /\ objects' = WithData(objects, id,
                                [BringData(id) EXCEPT !.needed[idx + 1].claims =
                                   Append(@, [name |-> "ann", amount |-> Num(amount),
                                              token |-> token])])
                 ELSE /\ req'[c].resp # BringList
                      /\ objects' = objects]_vars

\* a second claim was accepted that fills the need-line exactly
C24_Witness ==
  \E c \in Callers, r \in BringLists :
    /\ req[c].route = "POST /b/:id/claim/:idx"
    /\ req[c].resp = BringList
    /\ Parse(r.data).needed[1].amount_needed = 2
    /\ Len(Parse(r.data).needed[1].claims) = 2
    /\ ClaimedTotal(Parse(r.data).needed[1].claims) = 2

\* C26: in every stored bring list each need-line has amount_needed > 0 and
\* each claim has an amount > 0, whatever amount strings the create-list and
\* claim requests carried.
C26_AmountsPositive ==
  \A r \in BringLists :
    \A i \in DOMAIN Parse(r.data).needed :
      /\ Parse(r.data).needed[i].amount_needed > 0
      /\ \A k \in DOMAIN Parse(r.data).needed[i].claims :
           /\ IsNum(Parse(r.data).needed[i].claims[k].amount)
           /\ Parse(r.data).needed[i].claims[k].amount.num > 0

\* what does hold: a stored claim amount is a number >= 1 or null
ClaimAmountsPositiveOrNull ==
  \A r \in BringLists :
    \A i \in DOMAIN Parse(r.data).needed :
      \A k \in DOMAIN Parse(r.data).needed[i].claims :
        IsNum(Parse(r.data).needed[i].claims[k].amount) =>
          Parse(r.data).needed[i].claims[k].amount.num >= 1

-----------------------------------------------------------------------------
(* The entries and participants of an expense.                             *)

\* C27: every stored expense entry has an amount > 0, a non-empty description
\* and a non-empty split_between (an add-entry request with a missing, zero,
\* negative or non-numeric amount is rejected and stores nothing).
C27_EntriesValid ==
  \A r \in Expenses :
    \A i \in DOMAIN Parse(r.data).entries :
      LET entry == Parse(r.data).entries[i] IN
        /\ IsNum(entry.amount)
        /\ entry.amount.num > 0
        /\ entry.description # ""
        /\ entry.split_between # << >>

\* what does hold: description and split_between are never empty, and an amount
\* that is stored as a number is positive
EntriesValidOrNullAmount ==
  \A r \in Expenses :
    \A i \in DOMAIN Parse(r.data).entries :
      LET entry == Parse(r.data).entries[i] IN
        /\ IsNum(entry.amount) => entry.amount.num > 0
        /\ entry.description # ""
        /\ entry.split_between # << >>

\* the participants of a stored expense that have a name
Named(participants) == {i \in DOMAIN participants : participants[i].name # ""}

\* C29: the participants of an expense (names and tokens) are fixed at creation:
\* no add-entry or delete-entry request, accepted or rejected, changes the
\* stored participants list, and every expense has at least two participants.
C29_ParticipantsFixed ==
  [][\A r \in Expenses' :
       /\ Cardinality(Named(Parse(r.data).participants)) >= 2
       /\ Len(Parse(r.data).participants) = Cardinality(Named(Parse(r.data).participants))
       /\ \A old \in Expenses :
            old.id = r.id => Parse(r.data).participants = Parse(old.data).participants]_vars

\* an entry was added to the first expense and a later delete request was
\* refused: the participants are the two minted at creation
C29_Witness ==
  \E c \in Callers, r \in Expenses :
    /\ req[c].route = "DELETE /e/:id/entries/:idx"
    /\ req[c].resp.status = 403
    /\ req[c].id = r.id
    /\ Len(Parse(r.data).entries) = 1
    /\ Parse(r.data).participants = <<[name |-> "A", token |-> 1], [name |-> "B", token |-> 2]>>

-----------------------------------------------------------------------------
(* Routes of one tool asked for an id of another tool's object.            *)

\* an unexpired row with this id whose type tag is not type
OfOtherTool(id, type) == \E r \in objects : r.id = id /\ r.type # type /\ ~InPast(r, now)

\* C30: a request on a route of one tool never deletes or modifies an object
\* whose type tag belongs to another tool: the note delete route leaves an
\* object that is not a note in place, and the file-share delete route one that
\* is not a file share.
C30_OtherToolsObjectStays ==
  [][\A c \in Clients, id \in Ids :
       /\ (OfOtherTool(id, "note") /\ req'[c].route = "DELETE /notes/:id"
             /\ DeleteNoteOf(c, id)) => objects' = objects
       /\ (OfOtherTool(id, "fileshare") /\ req'[c].route = "DELETE /files/:id"
             /\ DeleteFilesOf(c, id)) => objects' = objects]_vars

-----------------------------------------------------------------------------
(* Polls: POST /polls, GET /polls/:id, POST /polls/:id/responses, with the  *)
(* note delete route, which removes an object of any type.                 *)

\* the responses stored over all polls are at most this many
MaxResponses == 2

VoteLists == {<< >>, <<"0">>}

PollError(status, msg) == [status |-> status, error |-> msg]

PollContainer == [status |-> 200, view |-> "polls/_container"]

\* dates.map((date, i) => ({date, time: times[i]}))
Slots(dates, times) == [i \in DOMAIN dates |-> [date |-> dates[i], time |-> times[i]]]

\* the responses stored over all polls
RECURSIVE ResponsesStored(_)
ResponsesStored(tbl) ==
  IF tbl = {} THEN 0
  ELSE LET r == CHOOSE x \in tbl : TRUE IN
         (IF r.type = "poll" THEN Len(Parse(r.data).responses) ELSE 0)
           + ResponsesStored(tbl \ {r})

InitPoll ==
  /\ objects = {}
  /\ now = 1
  /\ last = NoCall
  /\ terminated = {}
  /\ req = [c \in Clients |-> Idle]
  /\ dirs = {}
  /\ minted = 0
  /\ reveals = NoReveals

\* POST /polls
PostPollsOf(c, id, title, dates, times) ==
  /\ Fresh(id)
  /\ IF title = ""
       THEN /\ Reply(c, "POST /polls", PollError(200, "title"))
            /\ objects' = objects
     ELSE IF Len(dates) = 0 \/ Len(dates) # Len(times)
       THEN /\ Reply(c, "POST /polls", PollError(200, "date/time"))
            /\ objects' = objects
     ELSE /\ objects' = InsertRow(objects, id, "poll",
                                  [title |-> title, slots |-> Slots(dates, times),
                                   responses |-> << >>],
                                  now, NoExpiry)
          /\ Reply(c, "POST /polls", [status |-> 200, created |-> TRUE])
  /\ Terminate
  /\ UNCHANGED <<now, last, dirs, minted, reveals>>

PostPolls(c) ==
  \E id \in Ids, title \in {"", "dinner"}, dates \in {<< >>, <<"mon">>, <<"mon", "tue">>},
     times \in {<<"19">>, <<"19", "20">>} :
    PostPollsOf(c, id, title, dates, times)

\* GET /polls/:id
GetPollOf(c, id) ==
  LET poll == GetResult(objects, id, now) IN
    /\ objects' = GetTable(objects, id, now)
    /\ IF poll = << >>
         THEN Reply(c, "GET /polls/:id", [status |-> 404, view |-> "404"])
         ELSE Reply(c, "GET /polls/:id", [status |-> 200, view |-> "polls/show"])
    /\ Terminate
    /\ UNCHANGED <<now, last, dirs, minted, reveals>>

GetPoll(c) == \E id \in Ids : GetPollOf(c, id)

\* variant: a response replaces the stored response of the same name
PostResponseOnePerName(c, id, name, votes) ==
  LET poll == GetResult(objects, id, now)
      route == "POST /polls/:id/responses" IN
    /\ IF poll = << >>
         THEN /\ Reply(c, route, PollError(200, "Poll not found"))
              /\ objects' = GetTable(objects, id, now)
       ELSE IF name = ""
         THEN /\ Reply(c, route, PollError(200, "name"))
              /\ objects' = objects
       ELSE IF "responses" \notin DOMAIN poll[1].data
         THEN /\ Reply(c, route, PollError(500, "TypeError"))
              /\ objects' = objects
       ELSE LET data == poll[1].data
                others == SelectSeq(data.responses, LAMBDA r : r.name # name)
                newData == [data EXCEPT !.responses =
                              Append(others, [name |-> name, votes |-> votes])] IN
            /\ ResponsesStored(objects) < MaxResponses
            /\ objects' = UpdateTable(objects, id, newData, now)
            /\ Reply(c, route, PollContainer)
    /\ Terminate
    /\ UNCHANGED <<now, last, dirs, minted, reveals>>

\* variant: the handler waits between its get and its update, and other
\* handlers run meanwhile; the payload read is kept in the request
PostResponseAwait(c, id, name, votes) ==
  LET poll == GetResult(objects, id, now)
      route == "POST /polls/:id/responses" IN
    /\ \/ /\ req[c].st # "read"
          /\ IF poll = << >>
               THEN /\ Reply(c, route, PollError(200, "Poll not found"))
                    /\ objects' = GetTable(objects, id, now)
             ELSE IF name = ""
               THEN /\ Reply(c, route, PollError(200, "name"))
                    /\ objects' = objects
             ELSE IF "responses" \notin DOMAIN poll[1].data
               THEN /\ Reply(c, route, PollError(500, "TypeError"))
                    /\ objects' = objects
             ELSE /\ req' = [req EXCEPT ![c] = [st |-> "read", route |-> route, id |-> id,
                                                name |-> name, votes |-> votes,
                                                data |-> poll[1].data, resp |-> NoResponse]]
                  /\ objects' = objects
       \/ /\ req[c].st = "read"
          /\ req[c].id = id /\ req[c].name = name /\ req[c].votes = votes
          /\ ResponsesStored(objects) < MaxResponses
          /\ objects' = UpdateTable(objects, id,
                                    [req[c].data EXCEPT !.responses =
                                       Append(@, [name |-> name, votes |-> votes])], now)
          /\ Reply(c, route, PollContainer)
    /\ Terminate
    /\ UNCHANGED <<now, last, dirs, minted, reveals>>

\* POST /polls/:id/responses: get, push, update, get, with no await between
\* them; on an object without a responses array the push throws
PostResponseOf(c, id, name, votes) ==
  LET poll == GetResult(objects, id, now)
      route == "POST /polls/:id/responses" IN
    /\ IF poll = << >>
         THEN /\ Reply(c, route, PollError(200, "Poll not found"))
              /\ objects' = GetTable(objects, id, now)
       ELSE IF name = ""
         THEN /\ Reply(c, route, PollError(200, "name"))
              /\ objects' = objects
       ELSE IF "responses" \notin DOMAIN poll[1].data
         THEN /\ Reply(c, route, PollError(500, "TypeError"))
              /\ objects' = objects
       ELSE LET data == poll[1].data
                newData == [data EXCEPT !.responses =
                              Append(@, [name |-> name, votes |-> votes])] IN
            /\ ResponsesStored(objects) < MaxResponses
            /\ objects' = UpdateTable(objects, id, newData, now)
            /\ Reply(c, route, PollContainer)
    /\ Terminate
    /\ UNCHANGED <<now, last, dirs, minted, reveals>>

PostResponse(c) ==
  \E id \in Ids, name \in Names, votes \in VoteLists : PostResponseOf(c, id, name, votes)

NextPoll ==
  \/ \E c \in Clients : PostPolls(c)
  \/ \E c \in Clients : GetPoll(c)
  \/ \E c \in Clients : PostResponse(c)
  \/ \E c \in Clients : DeleteNote(c)

SpecPoll == InitPoll /\ [][NextPoll]_vars

Polls == {r \in objects : r.type = "poll"}

\* C28: poll responses are append-only: an accepted add-response request puts
\* one record {name, votes} at the end of the poll's responses, a used name
\* included, and no request changes the slots or a stored response of a poll
\* that is still there.
C28_ResponsesAppendOnly ==
  [][/\ \A old \in Polls :
          HasRow(objects', old.id) =>
            \E new \in Polls' :
              /\ new.id = old.id
              /\ Parse(new.data).slots = Parse(old.data).slots
              /\ Len(Parse(new.data).responses) >= Len(Parse(old.data).responses)
              /\ SubSeq(Parse(new.data).responses, 1, Len(Parse(old.data).responses))
                   = Parse(old.data).responses
     /\ \A c \in Clients :
          req'[c].route = "POST /polls/:id/responses" =>
            \A old \in Polls, name \in Names \ {""}, votes \in VoteLists :
              PostResponseOf(c, old.id, name, votes) =>
                /\ req'[c].resp = PollContainer
                /\ \E new \in Polls' :
                     /\ new.id = old.id
                     /\ Parse(new.data).responses
                          = Append(Parse(old.data).responses, [name |-> name, votes |-> votes])]_vars

\* two responses of the same name are stored one after the other
C28_Witness ==
  \E c \in Clients, r \in Polls :
    /\ req[c].route = "POST /polls/:id/responses"
    /\ req[c].resp = PollContainer
    /\ Parse(r.data).responses
         = <<[name |-> "ann", votes |-> <<"0">>], [name |-> "ann", votes |-> << >>]>>

-----------------------------------------------------------------------------
(* The read-modify-write routes of polls, expenses and bring lists, asked  *)
(* for by two clients in any order over one table.                         *)

InitRace ==
  /\ objects = {}
  /\ now = 1
  /\ last = NoCall
  /\ terminated = {}
  /\ req = [c \in Clients |-> Idle]
  /\ dirs = {}
  /\ minted = 0
  /\ reveals = NoReveals

\* well-formed requests that create the objects
CreateForRace(c) ==
  \/ \E id \in Ids : PostPollsOf(c, id, "dinner", <<"mon">>, <<"19">>)
  \/ \E id \in Ids : PostExpensesOf(c, id, "trip", "", <<"A", "B">>)
  \/ \E id \in ListIds : PostBringOf(c, id, "party", <<"cake">>, <<"2">>)

\* the token a participant of expense id holds (0: there is no such expense)
HolderToken(id) ==
  IF \E r \in Expenses : r.id = id
    THEN Parse((CHOOSE r \in Expenses : r.id = id).data).participants[1].token
    ELSE 0

\* the token stored on the element at 0-based position i of seq (0: none there)
TokenAt(seq, i) == IF i < Len(seq) THEN seq[i + 1].token ELSE 0

\* mutating requests with a well-formed body, sent by a holder of the token
\* they need, for any id and index
MutateForRace(c) ==
  \/ \E id \in Ids : PostResponseOf(c, id, "ann", <<"0">>)
  \/ \E id \in Ids : PostEntryOf(c, id, HolderToken(id), "taxi", "3", <<"A", "B">>)
  \/ \E id \in Ids, idx \in Indexes : DeleteEntryOf(c, id, HolderToken(id), idx)
  \/ \E id \in Ids, idx \in Indexes : PostClaimOf(c, id, idx, "ann", "1")
  \/ \E id \in Ids, idx \in Indexes, claimIdx \in Indexes :
       DeleteClaimOf(c, id, idx, claimIdx, TokenAt(ClaimsAt(id, idx), claimIdx))
  \/ \E id \in Ids : PostCustomOf(c, id, "ann", "salad", "2")
  \/ \E id \in Ids, customIdx \in Indexes :
       DeleteCustomOf(c, id, customIdx, TokenAt(CustomOf(id), customIdx))

NextRace ==
  \/ \E c \in Clients : CreateForRace(c)
  \/ \E c \in Clients : MutateForRace(c)

SpecRace == InitRace /\ [][NextRace]_vars

\* the payload stored under id in table tbl
Payload(tbl, id) == Parse((CHOOSE r \in tbl : r.id = id).data)

\* the step stores, of all the table, only the payload data under id
Stores(id, data) == HasRow(objects, id) /\ objects' = WithData(objects, id, data)

\* C25: no acknowledged mutation is lost, whatever the order in which the
\* requests of the clients are handled: every accepted add-response, add-entry,
\* delete-entry, claim, unclaim and custom-item request stores the payload
\* that is in the table when it is handled with exactly its own change applied,
\* so that no change stored by another request in the meantime is undone.
C25_NoLostUpdate ==
  [][\A c \in Clients :
       /\ (req'[c].route = "POST /polls/:id/responses" /\ req'[c].resp = PollContainer) =>
            \A id \in Ids :
              PostResponseOf(c, id, "ann", <<"0">>) =>
                Stores(id, [Payload(objects, id) EXCEPT !.responses =
                              Append(@, [name |-> "ann", votes |-> <<"0">>])])
       /\ (req'[c].route = "POST /e/:id/entries" /\ req'[c].resp = ExpenseEntries) =>
            \A id \in Ids :
              PostEntryOf(c, id, HolderToken(id), "taxi", "3", <<"A", "B">>) =>
                Stores(id, [Payload(objects, id) EXCEPT !.entries =
                              Append(@, [description |-> "taxi", amount |-> Num(3),
                                         paid_by |-> "A", split_between |-> <<"A", "B">>])])
       /\ (req'[c].route = "DELETE /e/:id/entries/:idx" /\ req'[c].resp = ExpenseEntries) =>
            \A id \in Ids, idx \in Indexes :
              DeleteEntryOf(c, id, HolderToken(id), idx) =>
                IF idx < Len(Payload(objects, id).entries)
                  THEN Stores(id, [Payload(objects, id) EXCEPT !.entries = Without(@, idx)])
                  ELSE objects' = objects
       /\ (req'[c].route = "POST /b/:id/claim/:idx" /\ req'[c].resp = BringList) =>
            \A id \in Ids, idx \in Indexes :
              PostClaimOf(c, id, idx, "ann", "1") =>
                \E token \in 1..(MaxTokens + MaxParticipantTokens) :
                  /\ token \notin BringTokens(id)
                  /\ Stores(id, [Payload(objects, id) EXCEPT !.needed[idx + 1].claims =
                                   Append(@, [name |-> "ann", amount |-> Num(1),
                                              token |-> token])])
       /\ (req'[c].route = "DELETE /b/:id/claim/:idx/:claimIdx" /\ req'[c].resp = BringList) =>
            \A id \in Ids, idx \in Indexes, claimIdx \in Indexes :
              DeleteClaimOf(c, id, idx, claimIdx, TokenAt(ClaimsAt(id, idx), claimIdx)) =>
                Stores(id, [Payload(objects, id) EXCEPT !.needed[idx + 1].claims =
                              Without(@, claimIdx)])
       /\ (req'[c].route = "POST /b/:id/custom" /\ req'[c].resp = BringList) =>
            \A id \in Ids :
              PostCustomOf(c, id, "ann", "salad", "2") =>
                \E token \in 1..(MaxTokens + MaxParticipantTokens) :
                  /\ token \notin BringTokens(id)
                  /\ Stores(id, [Payload(objects, id) EXCEPT !.custom =
                                   Append(@, [name |-> "ann", item |-> "salad",
                                              amount |-> Num(2), token |-> token])])
       /\ (req'[c].route = "DELETE /b/:id/custom/:customIdx" /\ req'[c].resp = BringList) =>
            \A id \in Ids, customIdx \in Indexes :
              DeleteCustomOf(c, id, customIdx, TokenAt(CustomOf(id), customIdx)) =>
                Stores(id, [Payload(objects, id) EXCEPT !.custom = Without(@, customIdx)])]_vars

\* both clients had a response accepted and the poll holds both
C25_Witness ==
  /\ \A c \in Clients :
       req[c].route = "POST /polls/:id/responses" /\ req[c].resp = PollContainer
  /\ \E r \in Polls : Len(Parse(r.data).responses) = 2

-----------------------------------------------------------------------------
(* get and purgeExpired on the same row at the same clock value.           *)

\* C31: get and purgeExpired agree on which rows are expired: for every stored
\* expires_at (null, 0, before, at or after the clock), a get call deletes the
\* row it is asked for exactly when purgeExpired at that clock value would.
C31_GetAgreesWithPurge ==
  [][(last'.op = "get" /\ now' = now) =>
       \A r \in RowsWithId(objects, last'.id) :
         (r \notin objects') <=> (r \notin PurgeTable(objects, now))]_vars

\* what does hold: the two agree on every row whose expires_at is not 0
GetAgreesWithPurgeUnlessZero ==
  [][(last'.op = "get" /\ now' = now) =>
       \A r \in RowsWithId(objects, last'.id) :
         r.expires_at # <<0>> =>
           ((r \notin objects') <=> (r \notin PurgeTable(objects, now)))]_vars

-----------------------------------------------------------------------------
(* The outcome of an upload.                                               *)

\* C32: an upload that fails or carries no files leaves neither a row nor a
\* directory for its share id and changes no row and no directory of another
\* share; a successful upload adds its row when its directory is there, and
\* every fileshare row that get can return has its directory.
C32_UploadAllOrNothing ==
  [][/\ \A c \in Clients :
          (req[c].st = "uploading" /\ req'[c].st = "done") =>
            IF "error" \in DOMAIN req'[c].resp
              THEN /\ ~HasRow(objects', req[c].id)
                   /\ req[c].id \notin dirs'
                   /\ objects' = objects
                   /\ dirs' \ {req[c].id} = dirs \ {req[c].id}
              ELSE /\ HasRow(objects', req[c].id)
                   /\ req[c].id \in dirs
                   /\ objects \subseteq objects'
                   /\ dirs' = dirs
     /\ \A r \in FileShares(objects') : ~LazilyExpired(r, now') => r.id \in dirs']_vars

\* what does hold when the process dies inside a handler: the outcome of every
\* upload that is answered
UploadOutcome ==
  [][\A c \in Clients :
       (req[c].st = "uploading" /\ req'[c].st = "done") =>
         IF "error" \in DOMAIN req'[c].resp
           THEN /\ ~HasRow(objects', req[c].id)
                /\ req[c].id \notin dirs'
                /\ objects' = objects
                /\ dirs' \ {req[c].id} = dirs \ {req[c].id}
           ELSE /\ HasRow(objects', req[c].id)
                /\ req[c].id \in dirs
                /\ objects \subseteq objects'
                /\ dirs' = dirs]_vars

-----------------------------------------------------------------------------
(* Who an expense entry is paid by.                                        *)

\* the names of the participants of the payload that hold this token
HoldersOf(data, token) ==
  {data.participants[i].name :
     i \in {j \in DOMAIN data.participants : data.participants[j].token = token}}

\* C33: the paid_by of every stored entry is the name of the participant of
\* that same expense whose token was presented when the entry was added: an
\* accepted add-entry request appends an entry paid by the holder of its
\* token, and no stored entry is paid by a name outside the participants.
C33_PaidByTokenHolder ==
  [][/\ \A c \in Callers :
          (req'[c].route = "POST /e/:id/entries" /\ req'[c].resp = ExpenseEntries) =>
            \A id \in Ids, token \in 0..MaxParticipantTokens, split \in SplitLists,
               amountStr \in EntryAmountStrings :
              (req'[c].id = id /\ req'[c].token = token
                 /\ PostEntryOf(c, id, token, "taxi", amountStr, split)) =>
                LET old == Payload(objects, id).entries
                    new == Payload(objects', id).entries IN
                  /\ Len(new) = Len(old) + 1
                  /\ SubSeq(new, 1, Len(old)) = old
                  /\ HoldersOf(Payload(objects, id), token) = {new[Len(new)].paid_by}
     /\ \A r \in Expenses' :
          \A i \in DOMAIN Parse(r.data).entries :
            \E j \in DOMAIN Parse(r.data).participants :
              Parse(r.data).participants[j].name = Parse(r.data).entries[i].paid_by]_vars

\* the second participant of an expense has added an entry with their token
C33_Witness ==
  \E c \in Callers, r \in Expenses :
    /\ req[c].route = "POST /e/:id/entries"
    /\ req[c].resp = ExpenseEntries
    /\ req[c].id = r.id
    /\ req[c].token = Parse(r.data).participants[2].token
    /\ Len(Parse(r.data).entries) = 1
    /\ Parse(r.data).entries[1].paid_by = Parse(r.data).participants[2].name

====
